---- MODULE Spec2Model ----
(***************************************************************************)
(* Verification model of the Sudoku generation / validation engine         *)
(* (classic, alphabet, thai-alphabet, even-odd, consecutive, jigsaw,       *)
(* asterisk, windoku) and of the variant registry.                         *)
(*                                                                         *)
(* Boards are functions row -> col -> cell, rows and columns 0-based as in *)
(* the source.  The empty cell (null) is Null.  Letters of the alphabet    *)
(* variants are held as character codes (see getLettersForSize).           *)
(*                                                                         *)
(* Math.random() is modelled by a bounded family of random streams: a      *)
(* stream `seed` yields at draw i the value Random(seed, i) / RandomDen    *)
(* in [0, 1).  Every consumer of randomness takes the stream as an input.  *)
(***************************************************************************)
EXTENDS Integers, Sequences, FiniteSets, TLC

(***************************************************************************)
(* Bounds of the model                                                     *)
(***************************************************************************)
\* number of random streams explored for every consumer of Math.random()
NumSeeds == 3

Seeds == 0 .. (NumSeeds - 1)

(***************************************************************************)
(* Board primitives                                                        *)
(***************************************************************************)
Null == 0

Idx(size) == 0 .. (size - 1)

createEmptyBoard(size) == [r \in Idx(size) |-> [c \in Idx(size) |-> Null]]

\* board.length
BoardSize(board) == Cardinality(DOMAIN board)

\* Math.floor(a / b) for non-negative integers
Floor(a, b) == a \div b

Abs(x) == IF x < 0 THEN -x ELSE x

Min(a, b) == IF a < b THEN a ELSE b

Max(a, b) == IF a < b THEN b ELSE a

(***************************************************************************)
(* Randomness                                                              *)
(***************************************************************************)
RandomDen == 1000

\* the value of the i-th Math.random() call of stream `seed`, times RandomDen.
\* Stream 0 always draws just below 1 (a Fisher-Yates shuffle on it leaves the
\* array as it is), stream 1 always draws 0 (the shuffle rotates the array),
\* stream 2 shuffles 1..9 into 2 3 5 6 9 7 8 1 4, the other streams vary with
\* the draw.
Random(seed, i) ==
  IF seed = 0 THEN RandomDen - 1
  ELSE IF seed = 1 THEN 0
  ELSE IF seed = 2
  THEN (IF i % 4 = 0
        THEN (500 + 200 * (i \div 4) + 250 * (i \div 4) * ((i \div 4) - 1)) % RandomDen
        ELSE (2 * i * i) % RandomDen)
  ELSE (seed * 137 * (i + 1) + 59 * i * i + 211 * (i \div 3)) % RandomDen

\* Math.floor(Math.random() * n)
RandomIndex(seed, i, n) == (Random(seed, i) * n) \div RandomDen

\* Fisher-Yates: for (i = length - 1; i > 0; i--) { j = floor(random * (i + 1)); swap(arr[i], arr[j]) }
\* arr is a 0-based array (a function on 0 .. n-1)
RECURSIVE shuffleFrom(_, _, _)
shuffleFrom(arr, i, seed) ==
  IF i <= 0 THEN arr
  ELSE LET j == RandomIndex(seed, i, i + 1)
       IN shuffleFrom([arr EXCEPT ![i] = arr[j], ![j] = arr[i]], i - 1, seed)

shuffle(arr, seed) == shuffleFrom(arr, Cardinality(DOMAIN arr) - 1, seed)

(***************************************************************************)
(* Classic Sudoku: classic_sudoku_board/SudokuGenerator.ts                 *)
(***************************************************************************)
\* getBoxCoordinates(row, col, size): [boxRow, boxCol]
getBoxCoordinates(row, col, size) ==
  LET boxSize == IF size = 4 THEN 2 ELSE IF size = 6 THEN 2 ELSE 3
  IN IF size = 6 THEN <<Floor(row, 2), Floor(col, 3)>>
     ELSE <<Floor(row, boxSize), Floor(col, boxSize)>>

\* a box that is 2 x 2 on the 6 x 6 board as well
boxColSizeSquare(size) == IF size = 4 THEN 2 ELSE IF size = 6 THEN 2 ELSE 3

\* boxRowSize / boxColSize of isValidMove
boxRowSize(size) == IF size = 4 THEN 2 ELSE IF size = 6 THEN 2 ELSE 3

boxColSize(size) == IF size = 4 THEN 2 ELSE IF size = 6 THEN 3 ELSE 3

\* the three loops with a row loop that does not skip the cell itself
rowColBoxFreeRowSelf(board, row, col, num, startRow, startCol, nRows, nCols) ==
  LET size == BoardSize(board)
  IN /\ \A c \in Idx(size) : ~(board[row][c] = num)
     /\ \A r \in Idx(size) : ~(r # row /\ board[r][col] = num)
     /\ \A r \in startRow .. (startRow + nRows - 1) :
          \A c \in startCol .. (startCol + nCols - 1) :
            ~((r # row \/ c # col) /\ board[r][c] = num)

\* the row loop, the column loop and the box loop shared by the variants'
\* isValidMove (each variant repeats them verbatim)
rowColBoxFree(board, row, col, num, startRow, startCol, nRows, nCols) ==
  LET size == BoardSize(board)
  IN /\ \A c \in Idx(size) : ~(c # col /\ board[row][c] = num)
     /\ \A r \in Idx(size) : ~(r # row /\ board[r][col] = num)
     /\ \A r \in startRow .. (startRow + nRows - 1) :
          \A c \in startCol .. (startCol + nCols - 1) :
            ~((r # row \/ c # col) /\ board[r][c] = num)

\* ClassicSudoku.isValidMove(board, row, col, num)
ClassicSudoku_isValidMove(board, row, col, num) ==
  LET size == BoardSize(board)
      startRow == Floor(row, boxRowSize(size)) * boxRowSize(size)
      startCol == Floor(col, boxColSize(size)) * boxColSize(size)
  IN rowColBoxFree(board, row, col, num, startRow, startCol,
                   boxRowSize(size), boxColSize(size))

(***************************************************************************)
(* Even-Odd Sudoku: even_odd_sudoku_board/SudokuGenerator.ts               *)
(***************************************************************************)
\* getEvenOddPattern(size): TRUE = shaded cell (even numbers only); rows and
\* columns of the table are read with index + 1
getEvenOddPattern(size) ==
  IF size = 9 THEN
    <<<<FALSE, FALSE, FALSE, FALSE, FALSE, TRUE, FALSE, FALSE, FALSE>>,
      <<FALSE, FALSE, TRUE, TRUE, FALSE, FALSE, FALSE, FALSE, TRUE>>,
      <<FALSE, FALSE, TRUE, FALSE, TRUE, FALSE, TRUE, FALSE, FALSE>>,
      <<TRUE, FALSE, FALSE, FALSE, FALSE, FALSE, FALSE, FALSE, FALSE>>,
      <<TRUE, FALSE, FALSE, FALSE, FALSE, TRUE, FALSE, FALSE, TRUE>>,
      <<FALSE, FALSE, FALSE, TRUE, FALSE, FALSE, FALSE, TRUE, TRUE>>,
      <<TRUE, TRUE, FALSE, FALSE, FALSE, TRUE, FALSE, FALSE, FALSE>>,
      <<TRUE, TRUE, FALSE, FALSE, TRUE, FALSE, FALSE, FALSE, FALSE>>,
      <<FALSE, FALSE, FALSE, FALSE, TRUE, TRUE, TRUE, FALSE, FALSE>>>>
  ELSE IF size = 6 THEN
    <<<<FALSE, TRUE, FALSE, TRUE, FALSE, TRUE>>,
      <<TRUE, FALSE, TRUE, FALSE, TRUE, FALSE>>,
      <<FALSE, TRUE, FALSE, TRUE, FALSE, TRUE>>,
      <<TRUE, FALSE, TRUE, FALSE, TRUE, FALSE>>,
      <<FALSE, TRUE, FALSE, TRUE, FALSE, TRUE>>,
      <<TRUE, FALSE, TRUE, FALSE, TRUE, FALSE>>>>
  ELSE IF size = 4 THEN
    <<<<FALSE, TRUE, FALSE, TRUE>>,
      <<TRUE, FALSE, TRUE, FALSE>>,
      <<FALSE, TRUE, FALSE, TRUE>>,
      <<TRUE, FALSE, TRUE, FALSE>>>>
  ELSE [r \in 1 .. size |-> [c \in 1 .. size |-> FALSE]]

isShadedCell(row, col, size) == getEvenOddPattern(size)[row + 1][col + 1]

\* even-odd isValidMove without the parity test of the shaded cells
evenOddIsValidMoveNoParity(board, row, col, num) ==
  ClassicSudoku_isValidMove(board, row, col, num)

\* EvenOddSudoku.isValidMove(board, row, col, num): parity first, then the
\* classic row, column and box loops
EvenOddSudoku_isValidMove(board, row, col, num) ==
  LET size == BoardSize(board)
      isShaded == isShadedCell(row, col, size)
      isEven == num % 2 = 0
      startRow == Floor(row, boxRowSize(size)) * boxRowSize(size)
      startCol == Floor(col, boxColSize(size)) * boxColSize(size)
  IN /\ ~(isShaded /\ ~isEven)
     /\ ~(~isShaded /\ isEven)
     /\ rowColBoxFree(board, row, col, num, startRow, startCol,
                      boxRowSize(size), boxColSize(size))

(***************************************************************************)
(* Alphabet Sudoku (letters A.. instead of numbers).  A letter is held as  *)
(* its code: 'A'..'Z' are 1..26 and 'a'..'z' are 27..52.                   *)
(***************************************************************************)
\* String.prototype.toUpperCase on one letter
toUpperCase(letter) == IF letter > 26 /\ letter <= 52 THEN letter - 26 ELSE letter

\* getLettersForSize(size): 'ABCDEFGHIJKLMNOPQRSTUVWXYZ'.slice(0, size).split('')
getLettersForSize(size) == [i \in Idx(Min(size, 26)) |-> i + 1]

\* values of a 0-based array
Values(arr) == {arr[i] : i \in DOMAIN arr}

\* AlphabetSudoku.isValidMove(board, row, col, letter)
AlphabetSudoku_isValidMove(board, row, col, letter) ==
  LET size == BoardSize(board)
      validLetters == getLettersForSize(size)
      upperLetter == toUpperCase(letter)
      startRow == Floor(row, boxRowSize(size)) * boxRowSize(size)
      startCol == Floor(col, boxColSize(size)) * boxColSize(size)
  IN /\ upperLetter \in Values(validLetters)
     /\ rowColBoxFree(board, row, col, upperLetter, startRow, startCol,
                      boxRowSize(size), boxColSize(size))

(***************************************************************************)
(* Thai Alphabet Sudoku.  The nine Thai characters are held as 1..9 in the *)
(* order of getThaiCharactersForSize; any other code is another character. *)
(***************************************************************************)
\* getThaiCharactersForSize(size)
getThaiCharactersForSize(size) == [i \in Idx(Min(size, 9)) |-> i + 1]

\* ThaiAlphabetSudoku.isValidMove(board, row, col, char)
ThaiAlphabetSudoku_isValidMove(board, row, col, char) ==
  LET size == BoardSize(board)
      validChars == getThaiCharactersForSize(size)
      startRow == Floor(row, boxRowSize(size)) * boxRowSize(size)
      startCol == Floor(col, boxColSize(size)) * boxColSize(size)
  IN /\ char \in Values(validChars)
     /\ rowColBoxFree(board, row, col, char, startRow, startCol,
                      boxRowSize(size), boxColSize(size))

(***************************************************************************)
(* Consecutive Sudoku.  Constraints are a record of the marked positions:  *)
(* <<row, col>> \in horizontal is a mark between (row, col) and            *)
(* (row, col + 1), <<row, col>> \in vertical one between (row, col) and    *)
(* (row + 1, col); given is FALSE for an omitted argument (NoConstraints). *)
(***************************************************************************)
NoConstraints == [given |-> FALSE, horizontal |-> {}, vertical |-> {}]

\* the check of one neighbour with the marked half of the rule only
neighbourOkMarkedOnly(board, nRow, nCol, num, hasConstraint) ==
  \/ board[nRow][nCol] = Null
  \/ ~(hasConstraint /\ ~(Abs(board[nRow][nCol] - num) = 1))

\* the check of one neighbour: a filled neighbour must differ by exactly one
\* when the pair is marked and must not when it is not
neighbourOk(board, nRow, nCol, num, hasConstraint) ==
  \/ board[nRow][nCol] = Null
  \/ LET isConsecutive == Abs(board[nRow][nCol] - num) = 1
     IN ~(hasConstraint /\ ~isConsecutive) /\ ~(~hasConstraint /\ isConsecutive)

\* the four neighbour checks shared by both isValidMove of the variant
neighboursOk(board, row, col, num, constraints) ==
  LET size == BoardSize(board)
  IN /\ col > 0 => neighbourOk(board, row, col - 1, num, <<row, col - 1>> \in constraints.horizontal)
     /\ col < size - 1 => neighbourOk(board, row, col + 1, num, <<row, col>> \in constraints.horizontal)
     /\ row > 0 => neighbourOk(board, row - 1, col, num, <<row - 1, col>> \in constraints.vertical)
     /\ row < size - 1 => neighbourOk(board, row + 1, col, num, <<row, col>> \in constraints.vertical)

\* ConsecutiveSudoku.isValidMove(board, row, col, num, constraints?) of
\* consecutive_sudoku_board/SudokuGenerator.ts
ConsecutiveSudoku_isValidMove(board, row, col, num, constraints) ==
  /\ ClassicSudoku_isValidMove(board, row, col, num)
  /\ constraints.given => neighboursOk(board, row, col, num, constraints)

\* isValidMove(board, row, col, num, constraints) of
\* consecutive_sudoku_board/SudokuBoard.tsx
ConsecutiveBoard_isValidMove(board, row, col, num, constraints) ==
  LET size == BoardSize(board)
      boxRow == getBoxCoordinates(row, col, size)[1]
      boxCol == getBoxCoordinates(row, col, size)[2]
      boxSize == IF size = 4 THEN 2 ELSE 3
      startRow == IF size = 6 THEN boxRow * 2 ELSE boxRow * boxSize
      startCol == IF size = 6 THEN boxCol * 3 ELSE boxCol * boxSize
      nRows == IF size = 6 THEN 2 ELSE boxSize
      nCols == IF size = 6 THEN 3 ELSE boxSize
  IN /\ ~(num < 1 \/ num > size)
     /\ rowColBoxFree(board, row, col, num, startRow, startCol, nRows, nCols)
     /\ neighboursOk(board, row, col, num, constraints)

(***************************************************************************)
(* Jigsaw Sudoku.  jigsawRegions.regions is the pattern (read with         *)
(* index + 1); regionCells is derived from it as createRegionsFromPattern  *)
(* does.                                                                   *)
(***************************************************************************)
\* jigsawRegions.regionCells[regionIndex], as a set of <<row, col>>
regionCellSet(regions, regionIndex) ==
  {rc \in Idx(Len(regions)) \X Idx(Len(regions)) : regions[rc[1] + 1][rc[2] + 1] = regionIndex}

\* JigsawSudoku.isValidMove(board, row, col, num, jigsawRegions)
JigsawSudoku_isValidMove(board, row, col, num, regions) ==
  LET size == BoardSize(board)
      regionIndex == regions[row + 1][col + 1]
  IN /\ \A c \in Idx(size) : ~(c # col /\ board[row][c] = num)
     /\ \A r \in Idx(size) : ~(r # row /\ board[r][col] = num)
     /\ \A rc \in regionCellSet(regions, regionIndex) :
          ~((rc[1] # row \/ rc[2] # col) /\ board[rc[1]][rc[2]] = num)

(***************************************************************************)
(* Asterisk Sudoku (9x9 only)                                              *)
(***************************************************************************)
\* asteriskPositions of getAsteriskPattern()
asteriskPositions ==
  {<<1, 4>>, <<2, 6>>, <<4, 7>>, <<6, 6>>, <<7, 4>>, <<6, 2>>, <<4, 1>>, <<2, 2>>, <<4, 4>>}

\* isAsteriskCell(row, col)
isAsteriskCell(row, col) == <<row, col>> \in asteriskPositions

\* getAsteriskCells(): the cells of the pattern
getAsteriskCells == {rc \in Idx(9) \X Idx(9) : isAsteriskCell(rc[1], rc[2])}

\* asterisk isValidMove without the loop over the asterisk cells
asteriskIsValidMoveNoAsterisk(board, row, col, num) ==
  ClassicSudoku_isValidMove(board, row, col, num)

\* AsteriskSudoku.isValidMove(board, row, col, num)
AsteriskSudoku_isValidMove(board, row, col, num) ==
  /\ ClassicSudoku_isValidMove(board, row, col, num)
  /\ isAsteriskCell(row, col) =>
       \A rc \in getAsteriskCells :
         ~(~(rc[1] = row /\ rc[2] = col) /\ board[rc[1]][rc[2]] = num)

\* the Set-based duplicate scan of validateAsteriskConstraint and
\* validateWindokuConstraint: the values of the cells are added to a Set one
\* by one, null included, and a value met twice fails the scan
noDuplicateValue(board, cells) ==
  \A a \in cells : \A b \in cells :
    a # b => board[a[1]][a[2]] # board[b[1]][b[2]]

\* validateAsteriskConstraint(board)
validateAsteriskConstraint(board) == noDuplicateValue(board, getAsteriskCells)

(***************************************************************************)
(* Windoku Sudoku (9x9 only)                                               *)
(***************************************************************************)
\* getWindokuRegions(): four 3x3 windows, as sets of <<row, col>>
getWindokuRegions ==
  <<(1 .. 3) \X (1 .. 3), (1 .. 3) \X (5 .. 7), (5 .. 7) \X (1 .. 3), (5 .. 7) \X (5 .. 7)>>

\* getWindokuRegionIndex(row, col): 0..3, or -1 outside the windows
getWindokuRegionIndex(row, col) ==
  IF \E i \in 1 .. 4 : <<row, col>> \in getWindokuRegions[i]
  THEN (CHOOSE i \in 1 .. 4 : <<row, col>> \in getWindokuRegions[i]) - 1
  ELSE -1

\* WindokuSudoku.isValidMove(board, row, col, num)
WindokuSudoku_isValidMove(board, row, col, num) ==
  LET regionIndex == getWindokuRegionIndex(row, col)
  IN /\ ClassicSudoku_isValidMove(board, row, col, num)
     /\ regionIndex # -1 =>
          \A rc \in getWindokuRegions[regionIndex + 1] :
            ~(~(rc[1] = row /\ rc[2] = col) /\ board[rc[1]][rc[2]] = num)

\* validateWindokuConstraint(board)
validateWindokuConstraint(board) ==
  \A i \in 1 .. 4 : noDuplicateValue(board, getWindokuRegions[i])

(***************************************************************************)
(* validateBoard, isBoardComplete, isBoardSolved of the generators.  Every *)
(* validateBoard clears a filled cell, asks isValidMove about its value    *)
(* and puts the value back.                                                *)
(***************************************************************************)
\* the board with cell (row, col) cleared
cleared(board, row, col) == [board EXCEPT ![row][col] = Null]

\* the filled cells of a board
filledCells(board) ==
  {rc \in Idx(BoardSize(board)) \X Idx(BoardSize(board)) : board[rc[1]][rc[2]] # Null}

\* board.every(row => row.every(cell => cell !== null))
isBoardComplete(board) ==
  \A r \in DOMAIN board : \A c \in DOMAIN board[r] : board[r][c] # Null

ClassicSudoku_validateBoard(board) ==
  \A rc \in filledCells(board) :
    ClassicSudoku_isValidMove(cleared(board, rc[1], rc[2]), rc[1], rc[2], board[rc[1]][rc[2]])

ClassicSudoku_isBoardSolved(board) == isBoardComplete(board) /\ ClassicSudoku_validateBoard(board)

AlphabetSudoku_validateBoard(board) ==
  \A rc \in filledCells(board) :
    AlphabetSudoku_isValidMove(cleared(board, rc[1], rc[2]), rc[1], rc[2], board[rc[1]][rc[2]])

AlphabetSudoku_isBoardSolved(board) == isBoardComplete(board) /\ AlphabetSudoku_validateBoard(board)

ThaiAlphabetSudoku_validateBoard(board) ==
  \A rc \in filledCells(board) :
    ThaiAlphabetSudoku_isValidMove(cleared(board, rc[1], rc[2]), rc[1], rc[2], board[rc[1]][rc[2]])

ThaiAlphabetSudoku_isBoardSolved(board) ==
  isBoardComplete(board) /\ ThaiAlphabetSudoku_validateBoard(board)

EvenOddSudoku_validateBoard(board) ==
  \A rc \in filledCells(board) :
    EvenOddSudoku_isValidMove(cleared(board, rc[1], rc[2]), rc[1], rc[2], board[rc[1]][rc[2]])

EvenOddSudoku_isBoardSolved(board) == isBoardComplete(board) /\ EvenOddSudoku_validateBoard(board)

JigsawSudoku_validateBoard(board, regions) ==
  \A rc \in filledCells(board) :
    JigsawSudoku_isValidMove(cleared(board, rc[1], rc[2]), rc[1], rc[2],
                             board[rc[1]][rc[2]], regions)

JigsawSudoku_isBoardSolved(board, regions) ==
  isBoardComplete(board) /\ JigsawSudoku_validateBoard(board, regions)

ConsecutiveSudoku_validateBoard(board, constraints) ==
  \A rc \in filledCells(board) :
    ConsecutiveSudoku_isValidMove(cleared(board, rc[1], rc[2]), rc[1], rc[2],
                                  board[rc[1]][rc[2]], constraints)

ConsecutiveSudoku_isBoardSolved(board, constraints) ==
  isBoardComplete(board) /\ ConsecutiveSudoku_validateBoard(board, constraints)

ConsecutiveBoard_validateBoard(board, constraints) ==
  \A rc \in filledCells(board) :
    ConsecutiveBoard_isValidMove(cleared(board, rc[1], rc[2]), rc[1], rc[2],
                                 board[rc[1]][rc[2]], constraints)

ConsecutiveBoard_isBoardSolved(board, constraints) ==
  isBoardComplete(board) /\ ConsecutiveBoard_validateBoard(board, constraints)

AsteriskSudoku_validateBoard(board) ==
  ClassicSudoku_validateBoard(board) /\ validateAsteriskConstraint(board)

AsteriskSudoku_isBoardSolved(board) == isBoardComplete(board) /\ AsteriskSudoku_validateBoard(board)

WindokuSudoku_validateBoard(board) ==
  ClassicSudoku_validateBoard(board) /\ validateWindokuConstraint(board)

WindokuSudoku_isBoardSolved(board) == isBoardComplete(board) /\ WindokuSudoku_validateBoard(board)

(***************************************************************************)
(* Backtracking.  The recursive solvers (solveSudoku, fillBoard,           *)
(* fillBoardOptimized) are run as their call stack: a frame is one active  *)
(* invocation that has placed candidate number `at` of its candidate list  *)
(* in cell (row, col) and is waiting for the recursive call to return.     *)
(* ret = "call": an invocation is starting; "true"/"false": the invocation *)
(* on top has just returned that value to the frame below.                 *)
(*   cfg.rule  : which isValidMove the solver calls                        *)
(*   cfg.aux   : that variant's auxiliary data                             *)
(*   cfg.cells : <<>> when the next cell is the first empty one in         *)
(*               row-major order, else the fixed cell order                *)
(*   cfg.seed  : -1 when candidates are tried in ascending order, else the *)
(*               random stream that orders them                            *)
(***************************************************************************)
\* the first empty cell in row-major order, as index row * size + col; -1 if none
FirstEmpty(board) ==
  LET size == BoardSize(board)
      empties == {k \in 0 .. (size * size - 1) : board[k \div size][k % size] = Null}
  IN IF empties = {} THEN -1 ELSE CHOOSE k \in empties : \A j \in empties : k <= j

\* numbers 1..size as a 0-based array: Array.from({ length: size }, (_, i) => i + 1)
numbersArray(size) == [i \in Idx(size) |-> i + 1]

\* numbers.sort(() => Math.random() - 0.5): some permutation of the array,
\* here the one the stream's draws (from draw `call` on) select
RECURSIVE sortRandomFrom(_, _, _, _)
sortRandomFrom(arr, i, seed, call) ==
  IF i <= 0 THEN arr
  ELSE LET j == RandomIndex(seed, i + call, i + 1)
       IN sortRandomFrom([arr EXCEPT ![i] = arr[j], ![j] = arr[i]], i - 1, seed, call)

sortRandom(arr, seed, call) == sortRandomFrom(arr, Cardinality(DOMAIN arr) - 1, seed, call)

\* the isValidMove the solver calls
validMove(cfg, board, row, col, num) ==
  IF cfg.rule = "even-odd" THEN EvenOddSudoku_isValidMove(board, row, col, num)
  ELSE IF cfg.rule = "alphabet" THEN AlphabetSudoku_isValidMove(board, row, col, num)
  ELSE IF cfg.rule = "thai-alphabet" THEN ThaiAlphabetSudoku_isValidMove(board, row, col, num)
  ELSE IF cfg.rule = "jigsaw" THEN JigsawSudoku_isValidMove(board, row, col, num, cfg.aux)
  ELSE IF cfg.rule = "consecutive-board"
  THEN ConsecutiveBoard_isValidMove(board, row, col, num, cfg.aux)
  ELSE ClassicSudoku_isValidMove(board, row, col, num)

\* the candidates an invocation at recursion depth `depth` tries, in order
candidates(cfg, size, depth) ==
  IF cfg.seed = -1 THEN numbersArray(size)
  ELSE sortRandom(numbersArray(size), cfg.seed, depth)

\* the cell an invocation at recursion depth `depth` works on; -1 when the
\* invocation finds nothing left to fill and returns true
nextCell(cfg, board, depth) ==
  IF cfg.cells = <<>> THEN FirstEmpty(board)
  ELSE IF depth >= Len(cfg.cells) THEN -1
  ELSE cfg.cells[depth + 1]

\* the body of the candidate loop from candidate index `from` on: place the
\* first candidate that isValidMove accepts and recurse, or return false
tryFrom(cfg, st, cell, from) ==
  LET size == BoardSize(st.board)
      row == cell \div size
      col == cell % size
      cands == candidates(cfg, size, Len(st.stack))
      valid == {p \in from .. (size - 1) : validMove(cfg, st.board, row, col, cands[p])}
  IN IF valid = {} THEN [st EXCEPT !.ret = "false"]
     ELSE LET p == CHOOSE q \in valid : \A o \in valid : q <= o
          IN [board |-> [st.board EXCEPT ![row][col] = cands[p]],
              stack |-> Append(st.stack, [cell |-> cell, at |-> p]),
              ret |-> "call"]

solveInit(board) == [board |-> board, stack |-> <<>>, ret |-> "call"]

solveDone(st) == st.ret # "call" /\ st.stack = <<>>

\* the return of a recursive call with false without `board[row][col] = null`
solveStepNoReset(cfg, st) ==
  IF st.ret = "call"
  THEN LET cell == nextCell(cfg, st.board, Len(st.stack))
       IN IF cell = -1 THEN [st EXCEPT !.ret = "true"] ELSE tryFrom(cfg, st, cell, 0)
  ELSE IF st.ret = "true"
  THEN [st EXCEPT !.stack = <<>>]
  ELSE LET f == st.stack[Len(st.stack)]
           popped == [board |-> st.board,
                      stack |-> SubSeq(st.stack, 1, Len(st.stack) - 1),
                      ret |-> "call"]
       IN tryFrom(cfg, popped, f.cell, f.at + 1)

\* a search without backtracking: when the recursive call returns false the
\* cell is reset and the invocation returns false without a further candidate
solveStepNoBacktrack(cfg, st) ==
  IF st.ret = "call"
  THEN LET cell == nextCell(cfg, st.board, Len(st.stack))
       IN IF cell = -1 THEN [st EXCEPT !.ret = "true"] ELSE tryFrom(cfg, st, cell, 0)
  ELSE IF st.ret = "true"
  THEN [st EXCEPT !.stack = <<>>]
  ELSE LET f == st.stack[Len(st.stack)]
           size == BoardSize(st.board)
       IN [board |-> [st.board EXCEPT ![f.cell \div size][f.cell % size] = Null],
           stack |-> SubSeq(st.stack, 1, Len(st.stack) - 1),
           ret |-> "false"]

\* one step of the recursion
solveStep(cfg, st) ==
  IF st.ret = "call"
  THEN LET cell == nextCell(cfg, st.board, Len(st.stack))
       IN IF cell = -1 THEN [st EXCEPT !.ret = "true"] ELSE tryFrom(cfg, st, cell, 0)
  ELSE IF st.ret = "true"
  THEN \* `if (solve(...)) return true` in every waiting invocation
       [st EXCEPT !.stack = <<>>]
  ELSE \* the recursive call returned false: reset the cell, next candidate
       LET f == st.stack[Len(st.stack)]
           size == BoardSize(st.board)
           popped == [board |-> [st.board EXCEPT ![f.cell \div size][f.cell % size] = Null],
                      stack |-> SubSeq(st.stack, 1, Len(st.stack) - 1),
                      ret |-> "call"]
       IN tryFrom(cfg, popped, f.cell, f.at + 1)

\* the recursion is followed for at most 2^MaxSolveLog steps
MaxSolveLog == 16

\* up to 2^k steps of the recursion from st
RECURSIVE solveRun(_, _, _)
solveRun(cfg, st, k) ==
  IF solveDone(st) THEN st
  ELSE IF k = 0 THEN solveStep(cfg, st)
  ELSE solveRun(cfg, solveRun(cfg, st, k - 1), k - 1)

\* the board after the solver returned, and what it returned
solve(cfg, board) == solveRun(cfg, solveInit(board), MaxSolveLog)

(***************************************************************************)
(* Inputs of the generators                                                *)
(***************************************************************************)
\* the board sizes of the size selector
Sizes == {4, 6, 9}

\* the difficulty argument; "undefined" is the omitted argument
Difficulties == {"easy", "medium", "hard", "undefined"}

\* the default value of the parameter: difficulty = 'medium'
defaultDifficulty(difficulty) == IF difficulty = "undefined" THEN "medium" ELSE difficulty

\* the switch on difficulty with the products rounded up
cellsToRemoveCeil(totalCells, difficulty) ==
  IF defaultDifficulty(difficulty) = "easy" THEN Floor(totalCells * 4 + 9, 10)
  ELSE IF defaultDifficulty(difficulty) = "medium" THEN Floor(totalCells * 5 + 9, 10)
  ELSE Floor(totalCells * 6 + 9, 10)

\* the switch on difficulty: Math.floor(totalCells * 0.4 / 0.5 / 0.6)
cellsToRemoveFor(totalCells, difficulty) ==
  IF defaultDifficulty(difficulty) = "easy" THEN Floor(totalCells * 4, 10)
  ELSE IF defaultDifficulty(difficulty) = "medium" THEN Floor(totalCells * 5, 10)
  ELSE Floor(totalCells * 6, 10)

\* positions: every [row, col] in row-major order, as a 0-based array
allPositions(size) == [k \in 0 .. (size * size - 1) |-> <<k \div size, k % size>>]

\* the stream that the consumer number `consumer` of a retry loop reads when
\* the loop starts on stream `seed`: the same stream again (stride 0) or the
\* next one each time (stride 1)
attemptSeed(seed, stride, consumer) == (seed + stride * consumer) % NumSeeds

\* what generatePuzzle returned, or that it threw
Returned(puzzle, solution, aux) ==
  [threw |-> FALSE, puzzle |-> puzzle, solution |-> solution, aux |-> aux]

Threw == [threw |-> TRUE, puzzle |-> <<>>, solution |-> <<>>, aux |-> <<>>]

\* clearFirst with the copy of the solution read column by column
clearFirstTransposed(solution, positions, count) ==
  LET n == Min(count, Cardinality(DOMAIN positions))
      gone == {positions[i] : i \in 0 .. (n - 1)}
  IN [r \in DOMAIN solution |->
       [c \in DOMAIN solution[r] |-> IF <<r, c>> \in gone THEN Null ELSE solution[c][r]]]

\* the puzzle left by the removal loop that clears positions[0 .. count-1]
clearFirst(solution, positions, count) ==
  LET n == Min(count, Cardinality(DOMAIN positions))
      gone == {positions[i] : i \in 0 .. (n - 1)}
  IN [r \in DOMAIN solution |->
       [c \in DOMAIN solution[r] |-> IF <<r, c>> \in gone THEN Null ELSE solution[r][c]]]

(***************************************************************************)
(* Classic Sudoku: generation                                              *)
(***************************************************************************)
\* ClassicSudoku.solveSudoku(board): first empty cell, numbers 1..size ascending
ClassicSudoku_solveSudoku(board) ==
  solve([rule |-> "classic", aux |-> <<>>, cells |-> <<>>, seed |-> -1], board)

\* ClassicSudoku.generateCompleteBoard(size): shuffled first row, then solve
ClassicSudoku_generateCompleteBoard(size, seed) ==
  LET firstRow == shuffle(numbersArray(size), seed)
      board == [createEmptyBoard(size) EXCEPT ![0] = firstRow]
  IN ClassicSudoku_solveSudoku(board).board

\* every array the Fisher-Yates loop can leave from index i down: the draw
\* j = Math.floor(Math.random() * (i + 1)) is any of 0..i
RECURSIVE shuffleOutcomesFrom(_, _)
shuffleOutcomesFrom(arr, i) ==
  IF i <= 0 THEN {arr}
  ELSE UNION {shuffleOutcomesFrom([arr EXCEPT ![i] = arr[j], ![j] = arr[i]], i - 1) :
                j \in 0 .. i}

\* every board ClassicSudoku.generateCompleteBoard(size) can return: one for
\* each first row the shuffle can leave
ClassicSudoku_generateCompleteBoardOutcomes(size) ==
  {ClassicSudoku_solveSudoku([createEmptyBoard(size) EXCEPT ![0] = firstRow]).board :
     firstRow \in shuffleOutcomesFrom(numbersArray(size), size - 1)}

\* the boards of ClassicSudoku.generateCompleteBoard, computed once per size
\* and stream
ClassicCompleteBoards ==
  [sz \in Sizes |-> [s \in Seeds |-> ClassicSudoku_generateCompleteBoard(sz, s)]]

\* ClassicSudoku.generatePuzzle(size, difficulty)
ClassicSudoku_generatePuzzle(size, difficulty, seed, carveSeed) ==
  LET solution == ClassicCompleteBoards[size][seed]
      cellsToRemove == cellsToRemoveFor(size * size, difficulty)
      positions == shuffle(allPositions(size), carveSeed)
  IN Returned(clearFirst(solution, positions, cellsToRemove), solution, <<>>)

(***************************************************************************)
(* Alphabet Sudoku: generation                                             *)
(***************************************************************************)
\* AlphabetSudoku.solveSudoku(board): first empty cell, letters in order
AlphabetSudoku_solveSudoku(board) ==
  solve([rule |-> "alphabet", aux |-> <<>>, cells |-> <<>>, seed |-> -1], board)

\* AlphabetSudoku.generateCompleteBoard(size)
AlphabetSudoku_generateCompleteBoard(size, seed) ==
  LET shuffledLetters == shuffle(getLettersForSize(size), seed)
      board == [createEmptyBoard(size) EXCEPT ![0] = shuffledLetters]
  IN AlphabetSudoku_solveSudoku(board).board

\* every board AlphabetSudoku.generateCompleteBoard(size) can return
AlphabetSudoku_generateCompleteBoardOutcomes(size) ==
  {AlphabetSudoku_solveSudoku([createEmptyBoard(size) EXCEPT ![0] = firstRow]).board :
     firstRow \in shuffleOutcomesFrom(getLettersForSize(size), size - 1)}

AlphabetCompleteBoards ==
  [sz \in Sizes |-> [s \in Seeds |-> AlphabetSudoku_generateCompleteBoard(sz, s)]]

\* AlphabetSudoku.generatePuzzle(size, difficulty)
AlphabetSudoku_generatePuzzle(size, difficulty, seed, carveSeed) ==
  LET solution == AlphabetCompleteBoards[size][seed]
      cellsToRemove == cellsToRemoveFor(size * size, difficulty)
      positions == shuffle(allPositions(size), carveSeed)
  IN Returned(clearFirst(solution, positions, cellsToRemove), solution, <<>>)

(***************************************************************************)
(* Thai Alphabet Sudoku: generation                                        *)
(***************************************************************************)
\* fillBoard() of generateCompleteBoard: first empty cell, characters in a
\* random order drawn anew by every invocation
ThaiAlphabetSudoku_fillBoard(board, seed) ==
  solve([rule |-> "thai-alphabet", aux |-> <<>>, cells |-> <<>>, seed |-> seed], board)

\* ThaiAlphabetSudoku.generateCompleteBoard(size): the board whatever
\* fillBoard returned
ThaiAlphabetSudoku_generateCompleteBoard(size, seed) ==
  ThaiAlphabetSudoku_fillBoard(createEmptyBoard(size), seed).board

ThaiCompleteBoards ==
  [sz \in Sizes |-> [s \in Seeds |-> ThaiAlphabetSudoku_generateCompleteBoard(sz, s)]]

\* ThaiAlphabetSudoku.generatePuzzle(size, difficulty)
ThaiAlphabetSudoku_generatePuzzle(size, difficulty, seed, carveSeed) ==
  LET solution == ThaiCompleteBoards[size][seed]
      cellsToRemove == cellsToRemoveFor(size * size, difficulty)
      positions == sortRandom(allPositions(size), carveSeed, 0)
  IN Returned(clearFirst(solution, positions, cellsToRemove), solution, <<>>)

(***************************************************************************)
(* Consecutive Sudoku: generation (consecutive_sudoku_board/               *)
(* SudokuGenerator.ts)                                                     *)
(***************************************************************************)
\* Math.random() < num / 10 for the draw i of the stream
randomBelow(seed, i, num) == Random(seed, i) * 10 < num * RandomDen

\* generateConsecutiveConstraints with the empty else-branch of the source
\* filled in: a pair that is not consecutive is marked too when the draw is
\* below randomMarkProbability 0.2
generateConsecutiveConstraintsRandomMarks(solution, seed) ==
  LET size == BoardSize(solution)
  IN [given |-> TRUE,
      horizontal |->
        {rc \in Idx(size) \X Idx(size - 1) :
           IF Abs(solution[rc[1]][rc[2]] - solution[rc[1]][rc[2] + 1]) = 1
           THEN randomBelow(seed, rc[1] * (size - 1) + rc[2], 6)
           ELSE randomBelow(seed, rc[1] * (size - 1) + rc[2], 2)},
      vertical |->
        {rc \in Idx(size - 1) \X Idx(size) :
           /\ Abs(solution[rc[1]][rc[2]] - solution[rc[1] + 1][rc[2]]) = 1
           /\ randomBelow(seed, size * (size - 1) + rc[1] * size + rc[2], 6)}]

\* generateConsecutiveConstraints(solution): a pair of neighbours that differ
\* by one is marked with markProbability 0.6, no other pair is ever marked
ConsecutiveSudoku_generateConsecutiveConstraints(solution, seed) ==
  LET size == BoardSize(solution)
  IN [given |-> TRUE,
      horizontal |->
        {rc \in Idx(size) \X Idx(size - 1) :
           /\ Abs(solution[rc[1]][rc[2]] - solution[rc[1]][rc[2] + 1]) = 1
           /\ randomBelow(seed, rc[1] * (size - 1) + rc[2], 6)},
      vertical |->
        {rc \in Idx(size - 1) \X Idx(size) :
           /\ Abs(solution[rc[1]][rc[2]] - solution[rc[1] + 1][rc[2]]) = 1
           /\ randomBelow(seed, size * (size - 1) + rc[1] * size + rc[2], 6)}]

\* ConsecutiveSudoku.generatePuzzle(size, difficulty)
ConsecutiveSudoku_generatePuzzle(size, difficulty, seed, markSeed, carveSeed) ==
  LET solution == ClassicCompleteBoards[size][seed]
      constraints == ConsecutiveSudoku_generateConsecutiveConstraints(solution, markSeed)
      cellsToRemove == cellsToRemoveFor(size * size, difficulty)
      positions == shuffle(allPositions(size), carveSeed)
  IN Returned(clearFirst(solution, positions, cellsToRemove), solution, constraints)

(***************************************************************************)
(* Asterisk Sudoku: generation                                             *)
(***************************************************************************)
\* maxAttempts of the generateCompleteBoard of asterisk and windoku
maxAttempts == 100

\* the board that attempt k of the retry loop of generateCompleteBoard
\* generates: one board is generated and dropped before the loop
classicAttempt(seed, stride, k) == ClassicCompleteBoards[9][attemptSeed(seed, stride, k + 1)]

\* what the retry loop returns when `passing` are the attempts whose board
\* passes the constraint: the first passing board, else the last board
retryClassic(passing, seed, stride) ==
  IF passing = {} THEN classicAttempt(seed, stride, maxAttempts - 1)
  ELSE classicAttempt(seed, stride, CHOOSE k \in passing : \A o \in passing : k <= o)

\* AsteriskSudoku.generateCompleteBoard()
AsteriskSudoku_generateCompleteBoard(seed, stride) ==
  retryClassic({k \in 0 .. (maxAttempts - 1) :
                  validateAsteriskConstraint(classicAttempt(seed, stride, k))},
               seed, stride)

\* the guard with the cap itself still allowing a removal
asteriskMayRemoveAtMax(asteriskCluesRemoved, maxAsteriskCluesRemoved) ==
  asteriskCluesRemoved <= maxAsteriskCluesRemoved

\* asteriskCluesRemoved < maxAsteriskCluesRemoved
asteriskMayRemove(asteriskCluesRemoved, maxAsteriskCluesRemoved) ==
  asteriskCluesRemoved < maxAsteriskCluesRemoved

\* the guarded removal loop of AsteriskSudoku.generatePuzzle from position i
\* on; st = [puzzle, removed, asteriskCluesRemoved]
RECURSIVE asteriskRemove(_, _, _, _)
asteriskRemove(st, positions, i, cellsToRemove) ==
  IF ~(i < Cardinality(DOMAIN positions) /\ st.removed < cellsToRemove) THEN st
  ELSE LET row == positions[i][1]
           col == positions[i][2]
           maxAsteriskCluesRemoved == Floor(Cardinality(getAsteriskCells) * 6, 10)
       IN IF isAsteriskCell(row, col)
          THEN IF asteriskMayRemove(st.asteriskCluesRemoved, maxAsteriskCluesRemoved)
               THEN asteriskRemove([puzzle |-> cleared(st.puzzle, row, col),
                                    removed |-> st.removed + 1,
                                    asteriskCluesRemoved |-> st.asteriskCluesRemoved + 1],
                                   positions, i + 1, cellsToRemove)
               ELSE asteriskRemove(st, positions, i + 1, cellsToRemove)
          ELSE asteriskRemove([st EXCEPT !.puzzle = cleared(st.puzzle, row, col),
                                         !.removed = st.removed + 1],
                              positions, i + 1, cellsToRemove)

\* AsteriskSudoku.generatePuzzle(size, difficulty)
AsteriskSudoku_generatePuzzle(size, difficulty, seed, stride, carveSeed) ==
  IF size # 9 THEN Threw
  ELSE LET solution == AsteriskSudoku_generateCompleteBoard(seed, stride)
           cellsToRemove == cellsToRemoveFor(81, difficulty)
           positions == shuffle(allPositions(9), carveSeed)
           done == asteriskRemove([puzzle |-> solution, removed |-> 0,
                                   asteriskCluesRemoved |-> 0],
                                  positions, 0, cellsToRemove)
       IN Returned(done.puzzle, solution, <<>>)

(***************************************************************************)
(* Windoku Sudoku: generation                                              *)
(***************************************************************************)
\* WindokuSudoku.generateCompleteBoard()
WindokuSudoku_generateCompleteBoard(seed, stride) ==
  retryClassic({k \in 0 .. (maxAttempts - 1) :
                  validateWindokuConstraint(classicAttempt(seed, stride, k))},
               seed, stride)

\* maxWindokuCluesRemoved of WindokuSudoku.generatePuzzle
maxWindokuCluesRemoved == 6

\* the window guard with the comparison made non-strict
windokuMayRemoveAtMax(cluesRemoved) == cluesRemoved <= maxWindokuCluesRemoved

\* the window guard of a carver that never clears a window cell
windokuMayRemoveNever(cluesRemoved) == cluesRemoved < 0

\* the window guard: windokuCluesRemoved[regionIndex] < maxWindokuCluesRemoved
windokuMayRemove(cluesRemoved) == cluesRemoved < maxWindokuCluesRemoved

\* the guarded removal loop of WindokuSudoku.generatePuzzle from position i
\* on; st = [puzzle, removed, windokuCluesRemoved]
RECURSIVE windokuRemove(_, _, _, _)
windokuRemove(st, positions, i, cellsToRemove) ==
  IF ~(i < Cardinality(DOMAIN positions) /\ st.removed < cellsToRemove) THEN st
  ELSE LET row == positions[i][1]
           col == positions[i][2]
           regionIndex == getWindokuRegionIndex(row, col)
       IN IF regionIndex # -1
          THEN IF windokuMayRemove(st.windokuCluesRemoved[regionIndex + 1])
               THEN windokuRemove([puzzle |-> cleared(st.puzzle, row, col),
                                   removed |-> st.removed + 1,
                                   windokuCluesRemoved |->
                                     [st.windokuCluesRemoved EXCEPT ![regionIndex + 1] = @ + 1]],
                                  positions, i + 1, cellsToRemove)
               ELSE windokuRemove(st, positions, i + 1, cellsToRemove)
          ELSE windokuRemove([st EXCEPT !.puzzle = cleared(st.puzzle, row, col),
                                        !.removed = st.removed + 1],
                             positions, i + 1, cellsToRemove)

\* WindokuSudoku.generatePuzzle(size, difficulty)
WindokuSudoku_generatePuzzle(size, difficulty, seed, stride, carveSeed) ==
  IF size # 9 THEN Threw
  ELSE LET solution == WindokuSudoku_generateCompleteBoard(seed, stride)
           cellsToRemove == cellsToRemoveFor(81, difficulty)
           positions == shuffle(allPositions(9), carveSeed)
           done == windokuRemove([puzzle |-> solution, removed |-> 0,
                                  windokuCluesRemoved |-> <<0, 0, 0, 0>>],
                                 positions, 0, cellsToRemove)
       IN Returned(done.puzzle, solution, <<>>)

(***************************************************************************)
(* Even-Odd Sudoku: generation                                             *)
(***************************************************************************)
\* EvenOddSudoku.solveSudoku(board): first empty cell, numbers 1..size ascending
EvenOddSudoku_solveSudoku(board) ==
  solve([rule |-> "even-odd", aux |-> <<>>, cells |-> <<>>, seed |-> -1], board)

\* solveSudoku on the empty board, computed once per size
EvenOddSolvedEmpty == [sz \in Sizes |-> EvenOddSudoku_solveSudoku(createEmptyBoard(sz))]

\* fillBoardStrategically(board): the positions it shuffles are never read,
\* so it is solveSudoku(board), here on the empty board it is given
fillBoardStrategically(size, seed) == EvenOddSolvedEmpty[size]

\* Math.floor(n / Math.sqrt(size)): the largest k with k * sqrt(size) <= n
floorDivSqrt(n, size) ==
  CHOOSE k \in 0 .. n : k * k * size <= n * n /\ (k + 1) * (k + 1) * size > n * n

\* Math.sqrt(size) when it is an integer, else -1
sqrtExact(size) ==
  IF \E k \in 0 .. size : k * k = size THEN CHOOSE k \in 0 .. size : k * k = size ELSE -1

\* fillBox(board, row, col) from the cell number k of the box on (cells in
\* row-major order); st = [board, numIndex]
RECURSIVE fillBoxFrom(_, _, _, _, _)
fillBoxFrom(st, row, col, numbers, k) ==
  LET size == BoardSize(st.board)
      boxSize == sqrtExact(size)
      currentRow == row + (k \div boxSize)
      currentCol == col + (k % boxSize)
      fits == {attempt \in Idx(size) :
                 EvenOddSudoku_isValidMove(st.board, currentRow, currentCol,
                                           numbers[(st.numIndex + attempt) % size])}
  IN IF k >= boxSize * boxSize THEN st
     ELSE IF fits = {} THEN fillBoxFrom(st, row, col, numbers, k + 1)
     ELSE LET attempt == CHOOSE a \in fits : \A o \in fits : a <= o
              num == numbers[(st.numIndex + attempt) % size]
          IN fillBoxFrom([board |-> [st.board EXCEPT ![currentRow][currentCol] = num],
                          numIndex |-> st.numIndex + 1],
                         row, col, numbers, k + 1)

\* fillBox(board, row, col): the numbers are shuffled, then dealt to the cells
fillBox(board, row, col, seed) ==
  fillBoxFrom([board |-> board, numIndex |-> 0], row, col,
              sortRandom(numbersArray(BoardSize(board)), seed, row), 0).board

\* fillDiagonalBoxes(board) from the box starting at (box, box) on
RECURSIVE fillDiagonalBoxesFrom(_, _, _)
fillDiagonalBoxesFrom(board, box, seed) ==
  IF box >= BoardSize(board) THEN board
  ELSE fillDiagonalBoxesFrom(fillBox(board, box, box, seed),
                             box + sqrtExact(BoardSize(board)), seed)

fillDiagonalBoxes(board, seed) == fillDiagonalBoxesFrom(board, 0, seed)

\* generateFallbackBoard(size): the board whatever solveSudoku returned.  With
\* a size that is no square the second box starts at a fractional row and the
\* read of that row throws.
generateFallbackBoard(size, seed) ==
  IF sqrtExact(size) = -1 THEN [threw |-> TRUE, board |-> <<>>]
  ELSE [threw |-> FALSE,
        board |-> EvenOddSudoku_solveSudoku(
                    fillDiagonalBoxes(createEmptyBoard(size), seed)).board]

\* the attempts of generateCompleteBoard
evenOddAttempts == 50

\* EvenOddSudoku.generateCompleteBoard(size)
EvenOddSudoku_generateCompleteBoard(size, seed, stride) ==
  LET passing == {attempt \in 0 .. (evenOddAttempts - 1) :
                    fillBoardStrategically(size, attemptSeed(seed, stride, attempt)).ret = "true"}
  IN IF passing # {}
     THEN LET attempt == CHOOSE a \in passing : \A o \in passing : a <= o
          IN [threw |-> FALSE,
              board |-> fillBoardStrategically(size, attemptSeed(seed, stride, attempt)).board]
     ELSE generateFallbackBoard(size, attemptSeed(seed, stride, evenOddAttempts))

EvenOddCompleteBoards ==
  [sz \in Sizes |-> [s \in Seeds |-> [stride \in {0, 1} |->
     EvenOddSudoku_generateCompleteBoard(sz, s, stride)]]]

\* boxIndex = Math.floor(row / boxSize) * boxSize + Math.floor(col / boxSize)
\* with boxSize = Math.sqrt(size); -1 stands for a value that is no integer
\* (a box row >= 1 times an irrational boxSize), which is no array index
evenOddBoxIndex(row, col, size) ==
  IF sqrtExact(size) # -1
  THEN floorDivSqrt(row, size) * sqrtExact(size) + floorDivSqrt(col, size)
  ELSE IF floorDivSqrt(row, size) = 0 THEN floorDivSqrt(col, size)
  ELSE -1

\* cluesPerBox after the counting loop: every cell counts for its boxIndex;
\* an element that is never counted stays 0
initialCluesPerBox(size) ==
  [b \in Idx(size) |->
     Cardinality({rc \in Idx(size) \X Idx(size) : evenOddBoxIndex(rc[1], rc[2], size) = b})]

\* one removal of the loop of EvenOddSudoku.generatePuzzle: the cell is
\* cleared and the counters follow.  cluesPerBox[boxIndex] of a boxIndex that
\* is no integer is NaN: decrementing it changes nothing.
evenOddRemoveCell(st, row, col, boxIndex) ==
  [puzzle |-> cleared(st.puzzle, row, col),
   removedCount |-> st.removedCount + 1,
   cluesPerBox |-> IF boxIndex = -1 THEN st.cluesPerBox
                   ELSE [st.cluesPerBox EXCEPT ![boxIndex] = @ - 1]]

\* the removal loop of EvenOddSudoku.generatePuzzle from position i on;
\* st = [puzzle, removedCount, cluesPerBox].  No comparison with the NaN of
\* a boxIndex that is no integer is true.
RECURSIVE evenOddRemove(_, _, _, _)
evenOddRemove(st, positions, i, cellsToRemove) ==
  IF ~(i < Cardinality(DOMAIN positions) /\ st.removedCount < cellsToRemove) THEN st
  ELSE LET row == positions[i][1]
           col == positions[i][2]
           size == BoardSize(st.puzzle)
           cellValue == st.puzzle[row][col]
           isShaded == getEvenOddPattern(size)[row + 1][col + 1]
           isEven == cellValue % 2 = 0
           boxIndex == evenOddBoxIndex(row, col, size)
           minCluesPerBox == Max(1, Floor(size, 3))
           wouldLeaveBoxEmpty ==
             boxIndex # -1 /\ st.cluesPerBox[boxIndex] <= minCluesPerBox
       IN IF (isEven /\ ~isShaded) \/ (~isEven /\ isShaded)
          THEN IF ~wouldLeaveBoxEmpty
               THEN evenOddRemove(evenOddRemoveCell(st, row, col, boxIndex),
                                  positions, i + 1, cellsToRemove)
               ELSE evenOddRemove(st, positions, i + 1, cellsToRemove)
          ELSE IF st.removedCount < cellsToRemove /\ ~wouldLeaveBoxEmpty
               THEN evenOddRemove(evenOddRemoveCell(st, row, col, boxIndex),
                                  positions, i + 1, cellsToRemove)
               ELSE evenOddRemove(st, positions, i + 1, cellsToRemove)

\* the second pass for one box whose counter is 0 (size a square): the first
\* empty cell of the box, in row-major order, whose solution value follows
\* the parity rule gets that value back
evenOddRestoreBox(st, solution, boxIndex) ==
  LET size == BoardSize(solution)
      boxSize == sqrtExact(size)
      boxRow == Floor(boxIndex, boxSize) * boxSize
      boxCol == (boxIndex % boxSize) * boxSize
      fit == {k \in 0 .. (boxSize * boxSize - 1) :
                LET r == boxRow + (k \div boxSize)
                    c == boxCol + (k % boxSize)
                    isShaded == getEvenOddPattern(size)[r + 1][c + 1]
                    isEven == solution[r][c] % 2 = 0
                IN st.puzzle[r][c] = Null /\ ((isEven /\ isShaded) \/ (~isEven /\ ~isShaded))}
  IN IF fit = {} THEN st
     ELSE LET k == CHOOSE a \in fit : \A o \in fit : a <= o
              r == boxRow + (k \div boxSize)
              c == boxCol + (k % boxSize)
          IN [st EXCEPT !.puzzle[r][c] = solution[r][c], !.cluesPerBox[boxIndex] = @ + 1]

\* the second pass from box boxIndex on (size a square)
RECURSIVE evenOddSecondPass(_, _, _)
evenOddSecondPass(st, solution, boxIndex) ==
  IF boxIndex >= BoardSize(solution) THEN st
  ELSE IF st.cluesPerBox[boxIndex] = 0
  THEN evenOddSecondPass(evenOddRestoreBox(st, solution, boxIndex), solution, boxIndex + 1)
  ELSE evenOddSecondPass(st, solution, boxIndex + 1)

\* EvenOddSudoku.generatePuzzle(size, difficulty).  When the size is no
\* square, the second pass meets a counter that is 0 for a boxIndex whose
\* box starts at a fractional row; reading that row of the puzzle throws.
\* (The counters of the boxIndex 0 .. that start at row 0 are kept above 0
\* by the removal loop.)
EvenOddSudoku_generatePuzzle(size, difficulty, seed, stride, carveSeed) ==
  LET complete == EvenOddCompleteBoards[size][seed][stride]
      solution == complete.board
      cellsToRemove == cellsToRemoveFor(size * size, difficulty)
      positions == shuffle(allPositions(size), carveSeed)
      removed == evenOddRemove([puzzle |-> solution, removedCount |-> 0,
                                cluesPerBox |-> initialCluesPerBox(size)],
                               positions, 0, cellsToRemove)
  IN IF complete.threw THEN Threw
     ELSE IF sqrtExact(size) = -1
     THEN IF \E b \in Idx(size) : removed.cluesPerBox[b] = 0 /\ floorDivSqrt(b, size) >= 1
          THEN Threw
          ELSE Returned(removed.puzzle, solution, <<>>)
     ELSE Returned(evenOddSecondPass(removed, solution, 0).puzzle, solution, <<>>)

(***************************************************************************)
(* Even-Odd Sudoku, the generator of src/unnamed/part_008: the same        *)
(* pattern, isValidMove and solveSudoku, another generateCompleteBoard and *)
(* an unguarded generatePuzzle                                             *)
(***************************************************************************)
\* the attempts of its generateCompleteBoard
evenOddPlainAttempts == 10

\* generateCompleteBoard(size): the board is reset and solved up to ten
\* times; the board is returned as it is when no attempt succeeds
EvenOddPlain_generateCompleteBoard(size) ==
  LET passing == {attempt \in 0 .. (evenOddPlainAttempts - 1) :
                    EvenOddSolvedEmpty[size].ret = "true"}
  IN IF passing # {} THEN EvenOddSolvedEmpty[size].board
     ELSE \* solveSudoku returned false and left the reset board as it was
          EvenOddSolvedEmpty[size].board

\* generatePuzzle(size, difficulty)
EvenOddPlain_generatePuzzle(size, difficulty, carveSeed) ==
  LET solution == EvenOddPlain_generateCompleteBoard(size)
      cellsToRemove == cellsToRemoveFor(size * size, difficulty)
      positions == shuffle(allPositions(size), carveSeed)
  IN Returned(clearFirst(solution, positions, cellsToRemove), solution, <<>>)

(***************************************************************************)
(* Jigsaw Sudoku: generation                                               *)
(***************************************************************************)
\* patterns of generate6x6Regions()
patterns6x6 ==
  <<<<<<0, 0, 1, 1, 2, 2>>,
    <<0, 0, 1, 1, 2, 2>>,
    <<3, 3, 4, 4, 5, 5>>,
    <<3, 3, 4, 4, 5, 5>>,
    <<0, 1, 2, 3, 4, 5>>,
    <<0, 1, 2, 3, 4, 5>>>>,
   <<<<0, 0, 0, 1, 1, 1>>,
    <<0, 2, 2, 1, 3, 3>>,
    <<2, 2, 4, 4, 3, 3>>,
    <<5, 4, 4, 4, 5, 5>>,
    <<5, 5, 0, 1, 2, 3>>,
    <<4, 5, 0, 1, 2, 3>>>>,
   <<<<0, 1, 1, 2, 2, 3>>,
    <<0, 0, 1, 2, 3, 3>>,
    <<4, 0, 5, 5, 3, 4>>,
    <<4, 4, 5, 1, 2, 4>>,
    <<0, 1, 2, 3, 4, 5>>,
    <<5, 1, 2, 3, 4, 0>>>>>>

\* patterns of generate9x9Regions()
patterns9x9 ==
  <<<<<<0, 0, 0, 1, 1, 1, 2, 2, 2>>,
    <<0, 3, 3, 1, 4, 4, 2, 5, 5>>,
    <<3, 3, 3, 4, 4, 4, 5, 5, 5>>,
    <<6, 6, 6, 7, 7, 7, 8, 8, 8>>,
    <<6, 0, 0, 7, 1, 1, 8, 2, 2>>,
    <<0, 0, 3, 1, 1, 4, 2, 2, 5>>,
    <<3, 3, 3, 4, 4, 4, 5, 5, 5>>,
    <<6, 6, 7, 7, 8, 8, 6, 7, 8>>,
    <<6, 7, 7, 8, 8, 0, 1, 2, 3>>>>,
   <<<<0, 0, 1, 1, 1, 2, 2, 2, 3>>,
    <<0, 0, 1, 4, 4, 2, 5, 5, 3>>,
    <<0, 4, 4, 4, 6, 6, 5, 5, 3>>,
    <<7, 7, 7, 6, 6, 6, 8, 8, 8>>,
    <<1, 2, 3, 0, 1, 2, 3, 4, 5>>,
    <<4, 5, 6, 7, 8, 0, 1, 2, 3>>,
    <<7, 8, 0, 1, 2, 3, 4, 5, 6>>,
    <<3, 4, 5, 6, 7, 8, 0, 1, 2>>,
    <<6, 7, 8, 0, 1, 2, 3, 4, 5>>>>,
   <<<<0, 0, 0, 1, 1, 2, 2, 2, 2>>,
    <<0, 3, 3, 1, 1, 1, 4, 4, 2>>,
    <<3, 3, 3, 5, 5, 4, 4, 4, 6>>,
    <<7, 7, 5, 5, 5, 8, 8, 6, 6>>,
    <<7, 7, 7, 0, 1, 8, 8, 8, 6>>,
    <<0, 1, 2, 3, 4, 5, 6, 7, 8>>,
    <<1, 2, 3, 4, 5, 6, 7, 8, 0>>,
    <<2, 3, 4, 5, 6, 7, 8, 0, 1>>,
    <<3, 4, 5, 6, 7, 8, 0, 1, 2>>>>>>

\* the pattern library of a size
jigsawPatterns(size) == IF size = 6 THEN patterns6x6 ELSE patterns9x9

\* Math.floor(Math.random() * patterns.length), counted from 1
jigsawPatternIndex(size, seed) == RandomIndex(seed, 0, Len(jigsawPatterns(size))) + 1

\* generateJigsawRegions(size): the selected pattern (its regionCells are
\* derived from it by regionCellSet)
generateJigsawRegions(size, seed) == jigsawPatterns(size)[jigsawPatternIndex(size, seed)]

\* cellOrder of generateCompleteBoard: the cells region by region, row-major
\* inside a region, as indexes row * size + col
jigsawCellOrder(regions) ==
  LET size == Len(regions)
      cells == 0 .. (size * size - 1)
      key(k) == regions[(k \div size) + 1][(k % size) + 1] * size * size + k
  IN [p \in 1 .. (size * size) |->
       CHOOSE k \in cells : Cardinality({j \in cells : key(j) < key(k)}) = p - 1]

\* Patterns on which fillBoardOptimized tries every placement and returns
\* false: a region with more than `size` cells cannot hold distinct values
\* 1..size, and the second 6x6 pattern admits no board either (its search
\* ends after 7,194,036 placements whatever the order of the candidates).
jigsawSearchFails(regions) ==
  \/ \E g \in Idx(Len(regions)) : Cardinality(regionCellSet(regions, g)) > Len(regions)
  \/ regions = patterns6x6[2]

\* fillBoardOptimized(0) on the reset board
fillBoardOptimized(size, regions, seed) ==
  IF jigsawSearchFails(regions)
  THEN [board |-> createEmptyBoard(size), stack |-> <<>>, ret |-> "false"]
  ELSE solve([rule |-> "jigsaw", aux |-> regions, cells |-> jigsawCellOrder(regions),
              seed |-> seed],
             createEmptyBoard(size))

\* maxAttempts of JigsawSudoku.generateCompleteBoard
jigsawMaxAttempts == 10

\* the while loop of JigsawSudoku.generateCompleteBoard from attempt
\* `attempts` on: the first attempt that fills the board, else the classic
\* board
RECURSIVE jigsawAttemptsFrom(_, _, _, _, _)
jigsawAttemptsFrom(size, regions, seed, stride, attempts) ==
  IF ~(attempts < jigsawMaxAttempts)
  THEN ClassicCompleteBoards[size][attemptSeed(seed, stride, jigsawMaxAttempts)]
  ELSE LET filled == fillBoardOptimized(size, regions, attemptSeed(seed, stride, attempts))
       IN IF filled.ret = "true" THEN filled.board
          ELSE jigsawAttemptsFrom(size, regions, seed, stride, attempts + 1)

\* JigsawSudoku.generateCompleteBoard(size, jigsawRegions)
JigsawSudoku_generateCompleteBoard(size, regions, seed, stride) ==
  jigsawAttemptsFrom(size, regions, seed, stride, 0)

\* the boards of JigsawSudoku.generateCompleteBoard, computed once per size,
\* pattern and stream
JigsawCompleteBoards ==
  [sz \in {6, 9} |-> [p \in 1 .. Len(jigsawPatterns(sz)) |->
     [s \in Seeds |-> [stride \in {0, 1} |->
        JigsawSudoku_generateCompleteBoard(sz, jigsawPatterns(sz)[p], s, stride)]]]]

\* the region guard with the comparison made non-strict
jigsawMayRemoveAtMin(clues, minCluesPerRegion) == clues >= minCluesPerRegion

\* the region guard: cluesPerRegion[regionIndex] > minCluesPerRegion
jigsawMayRemove(clues, minCluesPerRegion) == clues > minCluesPerRegion

\* the guarded removal loop of JigsawSudoku.generatePuzzle from position i on;
\* st = [puzzle, removed, cluesPerRegion]
RECURSIVE jigsawRemove(_, _, _, _, _)
jigsawRemove(st, regions, positions, i, cellsToRemove) ==
  IF ~(i < Cardinality(DOMAIN positions) /\ st.removed < cellsToRemove) THEN st
  ELSE LET row == positions[i][1]
           col == positions[i][2]
           regionIndex == regions[row + 1][col + 1]
           minCluesPerRegion == Max(1, Floor(Len(regions), 3))
       IN IF jigsawMayRemove(st.cluesPerRegion[regionIndex], minCluesPerRegion)
          THEN jigsawRemove([puzzle |-> cleared(st.puzzle, row, col),
                             removed |-> st.removed + 1,
                             cluesPerRegion |-> [st.cluesPerRegion EXCEPT ![regionIndex] = @ - 1]],
                            regions, positions, i + 1, cellsToRemove)
          ELSE jigsawRemove(st, regions, positions, i + 1, cellsToRemove)

\* JigsawSudoku.generatePuzzle(size, difficulty)
JigsawSudoku_generatePuzzle(size, difficulty, patternSeed, seed, stride, carveSeed) ==
  IF size # 6 /\ size # 9 THEN Threw
  ELSE LET regions == generateJigsawRegions(size, patternSeed)
           solution ==
             JigsawCompleteBoards[size][jigsawPatternIndex(size, patternSeed)][seed][stride]
           cellsToRemove == cellsToRemoveFor(size * size, difficulty)
           positions == shuffle(allPositions(size), carveSeed)
           cluesPerRegion == [g \in Idx(size) |-> Cardinality(regionCellSet(regions, g))]
           done == jigsawRemove([puzzle |-> solution, removed |-> 0,
                                 cluesPerRegion |-> cluesPerRegion],
                                regions, positions, 0, cellsToRemove)
       IN Returned(done.puzzle, solution, regions)

(***************************************************************************)
(* Consecutive Sudoku, the generator inside                                *)
(* consecutive_sudoku_board/SudokuBoard.tsx                                *)
(***************************************************************************)
\* generateConsecutiveConstraints(size): every pair of neighbours is marked
\* with constraintProbability 0.25, whatever the board will hold
ConsecutiveBoard_generateConsecutiveConstraints(size, seed) ==
  [given |-> TRUE,
   horizontal |->
     {rc \in Idx(size) \X Idx(size - 1) :
        Random(seed, rc[1] * (size - 1) + rc[2]) * 4 < RandomDen},
   vertical |->
     {rc \in Idx(size - 1) \X Idx(size) :
        Random(seed, size * (size - 1) + rc[1] * size + rc[2]) * 4 < RandomDen}]

\* fillBoard() of generateCompleteBoard: first empty cell, numbers in a random
\* order drawn anew by every invocation
ConsecutiveBoard_fillBoard(board, constraints, seed) ==
  solve([rule |-> "consecutive-board", aux |-> constraints, cells |-> <<>>, seed |-> seed],
        board)

\* generateCompleteBoard(size, constraints): the board whatever fillBoard
\* returned
ConsecutiveBoard_generateCompleteBoard(size, constraints, seed) ==
  ConsecutiveBoard_fillBoard(createEmptyBoard(size), constraints, seed).board

\* the sizes for which this generator is followed: on 9x9 the search it
\* starts is too long to follow
ConsecutiveBoardSizes == {4, 6}

ConsecutiveBoardCompleteBoards ==
  [sz \in ConsecutiveBoardSizes |-> [m \in Seeds |-> [s \in Seeds |->
     ConsecutiveBoard_generateCompleteBoard(
       sz, ConsecutiveBoard_generateConsecutiveConstraints(sz, m), s)]]]

\* generatePuzzle(size, difficulty) of SudokuBoard.tsx
ConsecutiveBoard_generatePuzzle(size, difficulty, markSeed, seed, carveSeed) ==
  LET constraints == ConsecutiveBoard_generateConsecutiveConstraints(size, markSeed)
      solution == ConsecutiveBoardCompleteBoards[size][markSeed][seed]
      cellsToRemove == cellsToRemoveFor(size * size, difficulty)
      positions == sortRandom(allPositions(size), carveSeed, 0)
  IN Returned(clearFirst(solution, positions, cellsToRemove), solution, constraints)

(***************************************************************************)
(* The generation handlers as a state machine.  A game is requested for a  *)
(* variant, a size and a difficulty; the handler runs as a whole and       *)
(* leaves what generatePuzzle returned (or that it threw).                 *)
(***************************************************************************)
VARIABLES
  phase,          \* "idle" | "generated"
  genVariant,     \* the variant whose generatePuzzle ran last
  genSize,        \* its size argument
  genDifficulty,  \* its difficulty argument
  genResult,      \* what it returned: Returned(...) or Threw
  tstVariant,     \* the variant whose validation functions are called
  tstBoard,       \* the board they are called with
  tstAux,         \* its jigsawRegions / constraints, <<>> when the variant has none
  tstCall         \* the call made last and what it returned

genVars == <<phase, genVariant, genSize, genDifficulty, genResult>>

tstVars == <<tstVariant, tstBoard, tstAux, tstCall>>

vars == <<genVars, tstVars>>

\* no validation call has been made
NoCall == [op |-> "none", result |-> FALSE]

\* no game has been generated
GenIdle ==
  /\ phase = "idle"
  /\ genVariant = "none"
  /\ genSize = 0
  /\ genDifficulty = "undefined"
  /\ genResult = Threw

\* no board is under validation
TstIdle ==
  /\ tstVariant = "none"
  /\ tstBoard = <<>>
  /\ tstAux = <<>>
  /\ tstCall = NoCall

Init == GenIdle /\ TstIdle

\* the handler's result is stored
Generated(v, sz, d, result) ==
  /\ phase = "idle"
  /\ phase' = "generated"
  /\ genVariant' = v
  /\ genSize' = sz
  /\ genDifficulty' = d
  /\ genResult' = result
  /\ UNCHANGED tstVars

GenerateClassic ==
  \E sz \in Sizes, d \in Difficulties, seed \in Seeds, carveSeed \in Seeds :
    Generated("classic", sz, d, ClassicSudoku_generatePuzzle(sz, d, seed, carveSeed))

GenerateAlphabet ==
  \E sz \in Sizes, d \in Difficulties, seed \in Seeds, carveSeed \in Seeds :
    Generated("alphabet", sz, d, AlphabetSudoku_generatePuzzle(sz, d, seed, carveSeed))

GenerateThaiAlphabet ==
  \E sz \in Sizes, d \in Difficulties, seed \in Seeds, carveSeed \in Seeds :
    Generated("thai-alphabet", sz, d, ThaiAlphabetSudoku_generatePuzzle(sz, d, seed, carveSeed))

GenerateConsecutive ==
  \E sz \in Sizes, d \in Difficulties, seed \in Seeds, markSeed \in Seeds, carveSeed \in Seeds :
    Generated("consecutive", sz, d,
              ConsecutiveSudoku_generatePuzzle(sz, d, seed, markSeed, carveSeed))

GenerateAsterisk ==
  \E sz \in Sizes, d \in Difficulties, seed \in Seeds, stride \in {0, 1}, carveSeed \in Seeds :
    Generated("asterisk", sz, d, AsteriskSudoku_generatePuzzle(sz, d, seed, stride, carveSeed))

GenerateWindoku ==
  \E sz \in Sizes, d \in Difficulties, seed \in Seeds, stride \in {0, 1}, carveSeed \in Seeds :
    Generated("windoku", sz, d, WindokuSudoku_generatePuzzle(sz, d, seed, stride, carveSeed))

GenerateEvenOdd ==
  \E sz \in Sizes, d \in Difficulties, seed \in Seeds, stride \in {0, 1}, carveSeed \in Seeds :
    Generated("even-odd", sz, d, EvenOddSudoku_generatePuzzle(sz, d, seed, stride, carveSeed))

GenerateEvenOddPlain ==
  \E sz \in Sizes, d \in Difficulties, carveSeed \in Seeds :
    Generated("even-odd-plain", sz, d, EvenOddPlain_generatePuzzle(sz, d, carveSeed))

GenerateJigsaw ==
  \E sz \in Sizes, d \in Difficulties, patternSeed \in Seeds, seed \in Seeds,
     stride \in {0, 1}, carveSeed \in Seeds :
    Generated("jigsaw", sz, d,
              JigsawSudoku_generatePuzzle(sz, d, patternSeed, seed, stride, carveSeed))

GenerateConsecutiveBoard ==
  \E sz \in ConsecutiveBoardSizes, d \in Difficulties, markSeed \in Seeds, seed \in Seeds,
     carveSeed \in Seeds :
    Generated("consecutive-board", sz, d,
              ConsecutiveBoard_generatePuzzle(sz, d, markSeed, seed, carveSeed))

\* the game is left (Back to Main / a new request)
Discard ==
  /\ phase = "generated"
  /\ phase' = "idle"
  /\ genVariant' = "none"
  /\ genSize' = 0
  /\ genDifficulty' = "undefined"
  /\ genResult' = Threw
  /\ UNCHANGED tstVars

Next ==
  \/ GenerateClassic
  \/ GenerateAlphabet
  \/ GenerateThaiAlphabet
  \/ GenerateConsecutive
  \/ GenerateAsterisk
  \/ GenerateWindoku
  \/ GenerateEvenOdd
  \/ GenerateEvenOddPlain
  \/ GenerateJigsaw
  \/ GenerateConsecutiveBoard
  \/ Discard

Spec == Init /\ [][Next]_vars

(***************************************************************************)
(* The SUDOKU_TYPES registry: what each entry's generator delegates to.    *)
(* The diagonal entries delegate to a module that is not part of the       *)
(* sources and are left out.                                               *)
(***************************************************************************)
RegistryVariants ==
  {"classic", "alphabet", "jigsaw", "even-odd", "consecutive", "thai-alphabet",
   "asterisk", "windoku"}

\* SUDOKU_TYPES[v].availableSizes
availableSizes(v) ==
  IF v = "jigsaw" THEN {6, 9}
  ELSE IF v \in {"asterisk", "windoku"} THEN {9}
  ELSE {4, 6, 9}

\* SUDOKU_TYPES[v].generator.validateBoard(board)
Registry_validateBoard(v, board) ==
  IF v \in {"classic", "jigsaw", "consecutive"} THEN ClassicSudoku_validateBoard(board)
  ELSE IF v = "alphabet" THEN AlphabetSudoku_validateBoard(board)
  ELSE IF v = "even-odd" THEN EvenOddSudoku_validateBoard(board)
  ELSE IF v = "thai-alphabet" THEN ThaiAlphabetSudoku_validateBoard(board)
  ELSE IF v = "asterisk" THEN AsteriskSudoku_validateBoard(board)
  ELSE WindokuSudoku_validateBoard(board)

\* SUDOKU_TYPES[v].generator.isBoardSolved(board)
Registry_isBoardSolved(v, board) ==
  IF v = "classic" THEN ClassicSudoku_isBoardSolved(board)
  ELSE IF v \in {"jigsaw", "consecutive"} THEN isBoardComplete(board)
  ELSE IF v = "alphabet" THEN AlphabetSudoku_isBoardSolved(board)
  ELSE IF v = "even-odd" THEN EvenOddSudoku_isBoardSolved(board)
  ELSE IF v = "thai-alphabet" THEN ThaiAlphabetSudoku_isBoardSolved(board)
  ELSE IF v = "asterisk" THEN AsteriskSudoku_isBoardSolved(board)
  ELSE WindokuSudoku_isBoardSolved(board)

(***************************************************************************)
(* The validation functions as a state machine.  A board of a generated    *)
(* game (its puzzle or its solution, as it is or with one cell changed) or *)
(* of the consecutive scenario is handed to the functions of its variant;  *)
(* each call runs as a whole and leaves what it returned.                  *)
(***************************************************************************)
\* the variants whose functions are called
TestVariants ==
  {"classic", "alphabet", "thai-alphabet", "even-odd", "consecutive",
   "consecutive-board", "jigsaw", "asterisk", "windoku"}

\* the game a board is taken from: generatePuzzle(size, 'hard') of the
\* variant on random stream s
startGame(v, sz, s) ==
  IF v = "classic" THEN ClassicSudoku_generatePuzzle(sz, "hard", s, s)
  ELSE IF v = "alphabet" THEN AlphabetSudoku_generatePuzzle(sz, "hard", s, s)
  ELSE IF v = "thai-alphabet" THEN ThaiAlphabetSudoku_generatePuzzle(sz, "hard", s, s)
  ELSE IF v = "even-odd" THEN EvenOddSudoku_generatePuzzle(sz, "hard", s, s % 2, s)
  ELSE IF v = "consecutive" THEN ConsecutiveSudoku_generatePuzzle(sz, "hard", s, s, s)
  ELSE IF v = "consecutive-board"
  THEN (IF sz \in ConsecutiveBoardSizes
        THEN ConsecutiveBoard_generatePuzzle(sz, "hard", s, s, s)
        ELSE Threw)
  ELSE IF v = "jigsaw" THEN JigsawSudoku_generatePuzzle(sz, "hard", s, s, 1, s)
  ELSE IF v = "asterisk" THEN AsteriskSudoku_generatePuzzle(sz, "hard", s, s % 2, s)
  ELSE WindokuSudoku_generatePuzzle(sz, "hard", s, s % 2, s)

\* the cells at which a board of a game may differ from its puzzle or solution
EditCells == {<<0, 0>>, <<1, 2>>}

\* the board with `value` written at (row, col); Null clears the cell
withCell(board, row, col, value) == [board EXCEPT ![row][col] = value]

\* the boards taken from a game: its puzzle and its solution, unchanged or
\* with one cell of EditCells cleared or set to a symbol 1..N
boardsOf(game) ==
  LET bases == {game.puzzle, game.solution}
  IN bases \cup {withCell(base, rc[1], rc[2], value) :
                   base \in bases, rc \in EditCells, value \in 0 .. BoardSize(game.solution)}

\* the scenario of the two-sided rule: a 9 x 9 board that holds only
\* board[0][0] = 3, with or without the mark between (0,0) and (0,1)
ScenarioBoard == withCell(createEmptyBoard(9), 0, 0, 3)

ScenarioConstraints ==
  {[given |-> TRUE, horizontal |-> {<<0, 0>>}, vertical |-> {}],
   [given |-> TRUE, horizontal |-> {}, vertical |-> {}]}

\* generatePuzzle of the variant returned `game`: one of the boards of the
\* game is the board the functions are called with
Started(v, game) ==
  /\ tstVariant = "none"
  /\ ~game.threw
  /\ tstVariant' = v
  /\ tstAux' = game.aux
  /\ tstBoard' \in boardsOf(game)
  /\ UNCHANGED <<tstCall, genVars>>

\* a game of some variant and size is started
StartGame ==
  \E v \in TestVariants, sz \in Sizes, s \in Seeds : Started(v, startGame(v, sz, s))

\* the auxiliary data a variant's functions take with an empty board: a
\* pattern of the library for jigsaw, no marks (or, for the generator module,
\* the omitted argument) for consecutive
emptyBoardAux(v, sz) ==
  IF v = "jigsaw" THEN {jigsawPatterns(sz)[i] : i \in 1 .. Len(jigsawPatterns(sz))}
  ELSE IF v = "consecutive"
  THEN {NoConstraints, [given |-> TRUE, horizontal |-> {}, vertical |-> {}]}
  ELSE IF v = "consecutive-board"
  THEN {[given |-> TRUE, horizontal |-> {}, vertical |-> {}]}
  ELSE {<<>>}

\* the functions of a variant are handed createEmptyBoard(size), for a size
\* the variant is offered in
StartEmpty ==
  /\ tstVariant = "none"
  /\ \E v \in TestVariants, sz \in Sizes :
       /\ v \in RegistryVariants => sz \in availableSizes(v)
       /\ tstVariant' = v
       /\ tstAux' \in emptyBoardAux(v, sz)
       /\ tstBoard' = createEmptyBoard(sz)
  /\ UNCHANGED <<tstCall, genVars>>

\* the scenario board is set up for one of the two consecutive modules
StartScenario ==
  /\ tstVariant = "none"
  /\ tstVariant' \in {"consecutive", "consecutive-board"}
  /\ tstAux' \in ScenarioConstraints
  /\ tstBoard' = ScenarioBoard
  /\ UNCHANGED <<tstCall, genVars>>

\* the candidates handed to isValidMove: the symbols 1..N and the first
\* value above them
CallValues(size) == 1 .. (size + 1)

\* the variant's own isValidMove, called with the auxiliary data of the game
VariantIsValidMove(v, board, row, col, value, aux) ==
  IF v = "classic" THEN ClassicSudoku_isValidMove(board, row, col, value)
  ELSE IF v = "alphabet" THEN AlphabetSudoku_isValidMove(board, row, col, value)
  ELSE IF v = "thai-alphabet" THEN ThaiAlphabetSudoku_isValidMove(board, row, col, value)
  ELSE IF v = "even-odd" THEN EvenOddSudoku_isValidMove(board, row, col, value)
  ELSE IF v = "consecutive" THEN ConsecutiveSudoku_isValidMove(board, row, col, value, aux)
  ELSE IF v = "consecutive-board" THEN ConsecutiveBoard_isValidMove(board, row, col, value, aux)
  ELSE IF v = "jigsaw" THEN JigsawSudoku_isValidMove(board, row, col, value, aux)
  ELSE IF v = "asterisk" THEN AsteriskSudoku_isValidMove(board, row, col, value)
  ELSE WindokuSudoku_isValidMove(board, row, col, value)

\* a call has returned `result`
Called(op, result) ==
  /\ tstVariant # "none"
  /\ tstCall = NoCall
  /\ tstCall' = [op |-> op, result |-> result]
  /\ UNCHANGED <<tstVariant, tstBoard, tstAux, genVars>>

\* isValidMove(board, row, col, value, aux?) for every cell and candidate:
\* the result is the set of the <<row, col, value>> it returned true for
CallIsValidMove ==
  Called("isValidMove",
         {a \in Idx(BoardSize(tstBoard)) \X Idx(BoardSize(tstBoard))
                  \X CallValues(BoardSize(tstBoard)) :
            VariantIsValidMove(tstVariant, tstBoard, a[1], a[2], a[3], tstAux)})

\* the variant's own validateBoard, called with the auxiliary data returned
\* alongside the solution
VariantValidates(v, board, aux) ==
  IF v = "classic" THEN ClassicSudoku_validateBoard(board)
  ELSE IF v = "alphabet" THEN AlphabetSudoku_validateBoard(board)
  ELSE IF v = "thai-alphabet" THEN ThaiAlphabetSudoku_validateBoard(board)
  ELSE IF v \in {"even-odd", "even-odd-plain"} THEN EvenOddSudoku_validateBoard(board)
  ELSE IF v = "consecutive" THEN ConsecutiveSudoku_validateBoard(board, aux)
  ELSE IF v = "consecutive-board" THEN ConsecutiveBoard_validateBoard(board, aux)
  ELSE IF v = "jigsaw" THEN JigsawSudoku_validateBoard(board, aux)
  ELSE IF v = "asterisk" THEN AsteriskSudoku_validateBoard(board)
  ELSE WindokuSudoku_validateBoard(board)

\* validateBoard with the early return taken before the cell is restored
RECURSIVE validateBoardReturnsBeforeRestore(_, _, _, _)
validateBoardReturnsBeforeRestore(v, board, aux, k) ==
  LET size == BoardSize(board)
      row == k \div size
      col == k % size
      temp == board[row][col]
      removed == [board EXCEPT ![row][col] = Null]
      isValid == VariantIsValidMove(v, removed, row, col, temp, aux)
  IN IF k >= size * size THEN [board |-> board, valid |-> TRUE]
     ELSE IF board[row][col] = Null
     THEN validateBoardReturnsBeforeRestore(v, board, aux, k + 1)
     ELSE IF ~isValid THEN [board |-> removed, valid |-> FALSE]
     ELSE validateBoardReturnsBeforeRestore(v, [removed EXCEPT ![row][col] = temp], aux, k + 1)

\* the loops of validateBoard(board, aux?) from cell k (row-major) on, with
\* their writes to the board: a filled cell is set to null, isValidMove is
\* called, the value is written back, and false is returned at the first
\* cell that fails; the result is the board as it is left and the value
\* returned
RECURSIVE validateBoardFrom(_, _, _, _)
validateBoardFrom(v, board, aux, k) ==
  LET size == BoardSize(board)
      row == k \div size
      col == k % size
      temp == board[row][col]
      removed == [board EXCEPT ![row][col] = Null]
      isValid == VariantIsValidMove(v, removed, row, col, temp, aux)
      restored == [removed EXCEPT ![row][col] = temp]
  IN IF k >= size * size THEN [board |-> board, valid |-> TRUE]
     ELSE IF board[row][col] = Null THEN validateBoardFrom(v, board, aux, k + 1)
     ELSE IF ~isValid THEN [board |-> restored, valid |-> FALSE]
     ELSE validateBoardFrom(v, restored, aux, k + 1)

\* validateBoard(board, aux?) of a variant whose validateBoard is this loop,
\* with the board it leaves
CallValidateBoardInPlace ==
  /\ tstVariant \in {"classic", "alphabet", "thai-alphabet", "even-odd", "consecutive",
                     "consecutive-board", "jigsaw"}
  /\ Called("validateBoard in place", validateBoardFrom(tstVariant, tstBoard, tstAux, 0))

\* validateBoard(board, aux?) of the variant's module
CallValidateBoard ==
  Called("validateBoard", VariantValidates(tstVariant, tstBoard, tstAux))

\* isBoardSolved(board, aux?) of the variant's module:
\* isBoardComplete(board) && validateBoard(board, aux?)
CallIsBoardSolved ==
  Called("isBoardSolved",
         isBoardComplete(tstBoard) /\ VariantValidates(tstVariant, tstBoard, tstAux))

\* SUDOKU_TYPES[variant].generator.validateBoard(board)
CallRegistryValidateBoard ==
  /\ tstVariant \in RegistryVariants
  /\ Called("registry.validateBoard", Registry_validateBoard(tstVariant, tstBoard))

\* SUDOKU_TYPES[variant].generator.isBoardSolved(board)
CallRegistryIsBoardSolved ==
  /\ tstVariant \in RegistryVariants
  /\ Called("registry.isBoardSolved", Registry_isBoardSolved(tstVariant, tstBoard))

\* the sizes for which every outcome of generateCompleteBoard is computed
OutcomeSizes == {4}

\* every board generateCompleteBoard(size) of the classic and of the
\* alphabet module can return, computed once
CompleteBoardOutcomes ==
  [v \in {"classic", "alphabet"} |->
     [sz \in OutcomeSizes |->
        IF v = "classic" THEN ClassicSudoku_generateCompleteBoardOutcomes(sz)
        ELSE AlphabetSudoku_generateCompleteBoardOutcomes(sz)]]

\* generateCompleteBoard(size) of module v was called for the size of the
\* board at hand; what is kept is the set of the boards it can return
GenerateCompleteBoardCalled(v, sz, outcomes) ==
  /\ tstVariant = v
  /\ BoardSize(tstBoard) = sz
  /\ Called("generateCompleteBoard", outcomes)

CallGenerateCompleteBoard ==
  \E v \in {"classic", "alphabet"}, sz \in OutcomeSizes :
    GenerateCompleteBoardCalled(v, sz, CompleteBoardOutcomes[v][sz])

\* the caller drops the result and may call again
Return ==
  /\ tstCall # NoCall
  /\ tstCall' = NoCall
  /\ UNCHANGED <<tstVariant, tstBoard, tstAux, genVars>>

NextBoard ==
  \/ StartGame
  \/ StartScenario
  \/ StartEmpty
  \/ CallIsValidMove
  \/ CallValidateBoard
  \/ CallValidateBoardInPlace
  \/ CallIsBoardSolved
  \/ CallRegistryValidateBoard
  \/ CallRegistryIsBoardSolved
  \/ CallGenerateCompleteBoard
  \/ Return

SpecBoard == Init /\ [][NextBoard]_vars

(***************************************************************************)
(* Properties of the generation handlers                                   *)
(***************************************************************************)
\* a generatePuzzle call has returned a pair
HasResult == phase = "generated" /\ ~genResult.threw

\* the cells of an N x N board
Cells(n) == Idx(n) \X Idx(n)

\* the number of empty cells of a board
EmptyCount(board) ==
  Cardinality({rc \in Cells(BoardSize(board)) : board[rc[1]][rc[2]] = Null})

\* C1: whenever a generatePuzzle call of any variant has returned, puzzle and
\* solution are both N x N for the requested N, and every non-empty cell of
\* the puzzle holds the value the solution holds at the same row and column.
C1_PuzzleWithinSolution ==
  HasResult =>
    /\ DOMAIN genResult.puzzle = Idx(genSize)
    /\ DOMAIN genResult.solution = Idx(genSize)
    /\ \A r \in Idx(genSize) :
         /\ DOMAIN genResult.puzzle[r] = Idx(genSize)
         /\ DOMAIN genResult.solution[r] = Idx(genSize)
         /\ \A c \in Idx(genSize) :
              genResult.puzzle[r][c] # Null =>
                genResult.puzzle[r][c] = genResult.solution[r][c]

\* an even-odd puzzle (guarded removal and second pass) has been returned
\* with both clues and empty cells
C1_Witness ==
  /\ HasResult
  /\ genVariant = "even-odd"
  /\ \E rc \in Cells(genSize) : genResult.puzzle[rc[1]][rc[2]] = Null
  /\ \E rc \in Cells(genSize) : genResult.puzzle[rc[1]][rc[2]] # Null

\* the number of clues a board holds in a set of cells
ClueCount(board, cellSet) ==
  Cardinality({rc \in cellSet : board[rc[1]][rc[2]] # Null})

\* no value occurs twice in any row or in any column of the board
RowsAndColumnsDistinct(board) ==
  \A rc \in Cells(BoardSize(board)), k \in Idx(BoardSize(board)) :
    board[rc[1]][rc[2]] # Null =>
      /\ (k # rc[2] => board[rc[1]][k] # board[rc[1]][rc[2]])
      /\ (k # rc[1] => board[k][rc[2]] # board[rc[1]][rc[2]])

\* C2: the board a variant's complete-board generator returned (the solution
\* of the call) has no empty cell and repeats no value in a row, a column or
\* a box, for each variant and size the variant supports; for jigsaw only
\* rows and columns are asked for, its boxes being the regions.
C2_CompleteBoardIsFullAndClassicValid ==
  (HasResult /\ genVariant \in {"classic", "alphabet", "thai-alphabet", "even-odd",
                                 "consecutive", "jigsaw", "asterisk", "windoku"}) =>
    /\ isBoardComplete(genResult.solution)
    /\ RowsAndColumnsDistinct(genResult.solution)
    /\ (genVariant # "jigsaw" => ClassicSudoku_validateBoard(genResult.solution))

\* C3: the solution a generatePuzzle call returned is accepted by the same
\* variant's validateBoard, called with the auxiliary data of the call.
C3_SolutionValidates ==
  HasResult => VariantValidates(genVariant, genResult.solution, genResult.aux)

\* C8: a classic, alphabet, thai-alphabet or consecutive generatePuzzle(N, d)
\* whose solution is complete leaves exactly floor(N*N*f(d)) cells empty,
\* f = 0.4, 0.5 (also when d is omitted), 0.6, and so N*N minus that many clues.
C8_UnguardedCarverCount ==
  (HasResult /\ genVariant \in {"classic", "alphabet", "thai-alphabet", "consecutive"}
             /\ isBoardComplete(genResult.solution)) =>
    LET tenths == IF genDifficulty = "easy" THEN 4
                  ELSE IF genDifficulty = "hard" THEN 6
                  ELSE 5
        expected == (genSize * genSize * tenths) \div 10
    IN /\ EmptyCount(genResult.puzzle) = expected
       /\ ClueCount(genResult.puzzle, Cells(genSize)) = genSize * genSize - expected

\* a classic 4 x 4 easy puzzle with 6 cells removed and 10 clues
C8_Witness ==
  /\ HasResult
  /\ genVariant = "classic" /\ genSize = 4 /\ genDifficulty = "easy"
  /\ isBoardComplete(genResult.solution)
  /\ EmptyCount(genResult.puzzle) = 6
  /\ ClueCount(genResult.puzzle, Cells(4)) = 10

\* C9: in every jigsaw puzzle returned, every region of the returned
\* jigsawRegions holds at least max(1, floor(size/3)) clues.
C9_JigsawRegionClues ==
  (HasResult /\ genVariant = "jigsaw") =>
    \A g \in Idx(genSize) :
      ClueCount(genResult.puzzle, regionCellSet(genResult.aux, g))
        >= (IF genSize \div 3 > 1 THEN genSize \div 3 ELSE 1)

\* a 6 x 6 jigsaw puzzle in which a region is down to exactly 2 clues while
\* another region still holds more
C9_Witness ==
  /\ HasResult /\ genVariant = "jigsaw" /\ genSize = 6
  /\ \E g \in Idx(6) : ClueCount(genResult.puzzle, regionCellSet(genResult.aux, g)) = 2
  /\ \E g \in Idx(6) : ClueCount(genResult.puzzle, regionCellSet(genResult.aux, g)) > 2

\* the cells of window w: rows 1-3 or 5-7, columns 1-3 or 5-7
WindowCells(w) ==
  {rc \in Cells(9) : /\ rc[1] \in (IF w \in {0, 1} THEN 1 .. 3 ELSE 5 .. 7)
                     /\ rc[2] \in (IF w \in {0, 2} THEN 1 .. 3 ELSE 5 .. 7)}

\* C10: in every windoku puzzle returned by generatePuzzle(9, d), each of
\* the four 3 x 3 windows keeps at least 3 of its 9 cells as clues.
C10_WindokuWindowClues ==
  (HasResult /\ genVariant = "windoku") =>
    \A w \in 0 .. 3 : ClueCount(genResult.puzzle, WindowCells(w)) >= 3

\* a windoku puzzle in which a window is down to exactly 3 clues
C10_Witness ==
  /\ HasResult /\ genVariant = "windoku"
  /\ \E w \in 0 .. 3 : ClueCount(genResult.puzzle, WindowCells(w)) = 3

(***************************************************************************)
(* Properties of the validation functions                                  *)
(***************************************************************************)
\* C4: for every entry of the registry and every board, isBoardSolved of the
\* entry is true exactly when the board has no empty cell and validateBoard
\* of the entry is true (the jigsaw and consecutive entries included)
C4_RegistrySolvedIffCompleteAndValid ==
  tstCall.op = "registry.isBoardSolved" =>
    tstCall.result = (isBoardComplete(tstBoard) /\ Registry_validateBoard(tstVariant, tstBoard))

\* every filled cell passes the variant's isValidMove with its own value
\* after being cleared
EveryFilledCellPasses(v, board, aux) ==
  \A r \in Idx(BoardSize(board)), c \in Idx(BoardSize(board)) :
    board[r][c] # Null =>
      VariantIsValidMove(v, withCell(board, r, c, Null), r, c, board[r][c], aux)

\* C5: for asterisk and windoku, validateBoard is true if and only if every
\* filled cell passes isValidMove with its own value after being cleared,
\* on partially filled boards too
C5_ValidateIffEveryFilledCellPasses ==
  (tstCall.op = "validateBoard" /\ tstVariant \in {"asterisk", "windoku"}) =>
    tstCall.result = EveryFilledCellPasses(tstVariant, tstBoard, tstAux)

\* the box of the claim: h rows x w columns, 2 x 2 for N = 4, 2 x 3 for
\* N = 6 and 3 x 3 for N = 9
BoxHeight(n) == IF n = 9 THEN 3 ELSE 2

BoxWidth(n) == IF n = 4 THEN 2 ELSE 3

\* the cells of the box that holds (row, col)
BoxCellsOf(row, col, n) ==
  {rc \in Cells(n) : /\ rc[1] \div BoxHeight(n) = row \div BoxHeight(n)
                     /\ rc[2] \div BoxWidth(n) = col \div BoxWidth(n)}

\* value occurs in no other cell of the row, the column and the box
FreeInRowColumnBox(board, row, col, value) ==
  LET n == BoardSize(board)
  IN /\ \A c \in Idx(n) \ {col} : board[row][c] # value
     /\ \A r \in Idx(n) \ {row} : board[r][col] # value
     /\ \A rc \in BoxCellsOf(row, col, n) \ {<<row, col>>} : board[rc[1]][rc[2]] # value

\* the boxes getBoxCoordinates identifies on an N x N board
BoxesByCoordinates(n) ==
  {{rc \in Cells(n) : getBoxCoordinates(rc[1], rc[2], n) = bc} :
     bc \in {getBoxCoordinates(rc[1], rc[2], n) : rc \in Cells(n)}}

\* C6: classic isValidMove is true exactly when the value occurs in no
\* other cell of the row, the column and the box; the box is the one
\* getBoxCoordinates identifies, and these boxes split the board into N
\* boxes of N cells
C6_ClassicIsValidMove ==
  (tstCall.op = "isValidMove" /\ tstVariant = "classic") =>
    LET n == BoardSize(tstBoard)
    IN /\ tstCall.result =
            {a \in Idx(n) \X Idx(n) \X CallValues(n) :
               FreeInRowColumnBox(tstBoard, a[1], a[2], a[3])}
       /\ \A rc \in Cells(n) :
            BoxCellsOf(rc[1], rc[2], n) =
              {o \in Cells(n) : getBoxCoordinates(o[1], o[2], n)
                                  = getBoxCoordinates(rc[1], rc[2], n)}
       /\ Cardinality(BoxesByCoordinates(n)) = n
       /\ \A box \in BoxesByCoordinates(n) : Cardinality(box) = n

\* a 6 x 6 classic call that accepted a candidate and rejected another one
\* for the box alone
C6_Witness ==
  /\ tstCall.op = "isValidMove"
  /\ tstVariant = "classic"
  /\ BoardSize(tstBoard) = 6
  /\ tstCall.result # {}
  /\ \E a \in Idx(6) \X Idx(6) \X (1 .. 6) :
       /\ a \notin tstCall.result
       /\ \A c \in Idx(6) \ {a[2]} : tstBoard[a[1]][c] # a[3]
       /\ \A r \in Idx(6) \ {a[1]} : tstBoard[r][a[2]] # a[3]

\* the mark on the edge between (row, col) and its neighbour (nRow, nCol):
\* left horizontal[row][col-1], right horizontal[row][col],
\* top vertical[row-1][col], bottom vertical[row][col]
MarkBetween(constraints, row, col, nRow, nCol) ==
  IF nRow = row
  THEN <<row, Min(col, nCol)>> \in constraints.horizontal
  ELSE <<Min(row, nRow), col>> \in constraints.vertical

\* the up to four orthogonal neighbours of a cell of an N x N board
Neighbours(row, col, n) ==
  {rc \in Cells(n) : Abs(rc[1] - row) + Abs(rc[2] - col) = 1}

\* the two-sided rule: a filled neighbour differs by exactly one when the
\* edge is marked and does not when it is not
TwoSidedRule(board, row, col, value, constraints) ==
  \A rc \in Neighbours(row, col, BoardSize(board)) :
    board[rc[1]][rc[2]] # Null =>
      (MarkBetween(constraints, row, col, rc[1], rc[2])
         <=> Abs(value - board[rc[1]][rc[2]]) = 1)

\* C7: consecutive isValidMove with constraints, for a cell value 1..N, is
\* true exactly when the classic rule passes and every filled orthogonal
\* neighbour follows the two-sided rule; with board[0][0] = 3 and a mark
\* between (0,0) and (0,1), 4 is accepted at (0,1) and 6 rejected, and
\* without the mark the two answers swap
C7_ConsecutiveTwoSidedRule ==
  (/\ tstCall.op = "isValidMove"
   /\ tstVariant \in {"consecutive", "consecutive-board"}
   /\ tstAux.given) =>
    LET n == BoardSize(tstBoard)
    IN /\ \A a \in Idx(n) \X Idx(n) \X (1 .. n) :
            a \in tstCall.result <=>
              /\ FreeInRowColumnBox(tstBoard, a[1], a[2], a[3])
              /\ TwoSidedRule(tstBoard, a[1], a[2], a[3], tstAux)
       /\ tstBoard = ScenarioBoard =>
            IF <<0, 0>> \in tstAux.horizontal
            THEN <<0, 1, 4>> \in tstCall.result /\ <<0, 1, 6>> \notin tstCall.result
            ELSE <<0, 1, 4>> \notin tstCall.result /\ <<0, 1, 6>> \in tstCall.result

\* the scenario with the mark has been asked by the board component: 4 was
\* accepted at (0,1), 6 was rejected
C7_Witness ==
  /\ tstCall.op = "isValidMove"
  /\ tstVariant = "consecutive-board"
  /\ tstBoard = ScenarioBoard
  /\ <<0, 0>> \in tstAux.horizontal
  /\ <<0, 1, 4>> \in tstCall.result
  /\ <<0, 1, 6>> \notin tstCall.result

(***************************************************************************)
(* Properties of the guarded carvers and of the pattern library            *)
(***************************************************************************)
\* C11: in every asterisk puzzle returned by generatePuzzle(9, d) at most 5
\* of the 9 asterisk cells are cleared, so at least 4 remain as clues
C11_AsteriskClues ==
  (HasResult /\ genVariant = "asterisk") =>
    /\ Cardinality(getAsteriskCells) = 9
    /\ ClueCount(genResult.puzzle, getAsteriskCells) >= 4

\* an asterisk puzzle in which the cap was reached: exactly 4 asterisk clues
C11_Witness ==
  /\ HasResult
  /\ genVariant = "asterisk"
  /\ ClueCount(genResult.puzzle, getAsteriskCells) = 4

\* the boxes of an N x N board: 2 x 2, 2 rows x 3 columns, 3 x 3
Boxes(n) == {BoxCellsOf(rc[1], rc[2], n) : rc \in Cells(n)}

\* C12: in every even-odd puzzle returned by generatePuzzle(size, d) every
\* box keeps at least max(2, floor(size/4)) clues, and no box has zero clues
C12_EvenOddBoxClues ==
  (HasResult /\ genVariant = "even-odd") =>
    \A box \in Boxes(genSize) :
      /\ ClueCount(genResult.puzzle, box) >= Max(2, Floor(genSize, 4))
      /\ ClueCount(genResult.puzzle, box) > 0

\* C13: every pattern generateJigsawRegions(N) can select splits the N x N
\* board into exactly N regions labelled 0..N-1 with exactly N cells each
C13_JigsawRegionsHaveNCells ==
  (HasResult /\ genVariant = "jigsaw") =>
    /\ \A rc \in Cells(genSize) : genResult.aux[rc[1] + 1][rc[2] + 1] \in Idx(genSize)
    /\ \A g \in Idx(genSize) : Cardinality(regionCellSet(genResult.aux, g)) = genSize

\* C14: generatePuzzle raises an error and returns nothing when asterisk or
\* windoku is requested with a size other than 9 or jigsaw with a size
\* outside {6, 9}; for every variant of the registry with a size of its
\* availableSizes it returns a result and never raises
C14_GeneratePuzzleErrors ==
  (phase = "generated" /\ genVariant \in RegistryVariants) =>
    /\ genResult.threw <=> genSize \notin availableSizes(genVariant)
    /\ genResult.threw => genResult = Threw

(***************************************************************************)
(* Properties of isValidMove                                               *)
(***************************************************************************)
\* C15: for every variant, isValidMove returns false for a candidate outside
\* the symbols 1..N of the board, on every board, the empty board included
C15_OutOfRangeCandidateRejected ==
  tstCall.op = "isValidMove" =>
    \A a \in tstCall.result : a[3] \in 1 .. BoardSize(tstBoard)

\* the contents of the asked cell that are compared: empty, the candidate
\* itself, and another symbol
OwnCellContents(value, n) == {Null, value, (value % n) + 1}

\* C16: for every variant the result of isValidMove(board, row, col, v) does
\* not depend on the content of board[row][col]: it is the same whether the
\* cell is empty, holds v or holds another value, so checking a placed
\* value in place agrees with the clear-then-check of validateBoard
C16_IsValidMoveIgnoresOwnCell ==
  tstCall.op = "isValidMove" =>
    \A a \in Idx(BoardSize(tstBoard)) \X Idx(BoardSize(tstBoard))
                \X CallValues(BoardSize(tstBoard)) :
      \A content \in OwnCellContents(a[3], BoardSize(tstBoard)) :
        VariantIsValidMove(tstVariant, withCell(tstBoard, a[1], a[2], content),
                           a[1], a[2], a[3], tstAux)
          = (a \in tstCall.result)

\* a jigsaw call that accepted the value a filled cell already holds
C16_Witness ==
  /\ tstCall.op = "isValidMove"
  /\ tstVariant = "jigsaw"
  /\ \E a \in tstCall.result : tstBoard[a[1]][a[2]] = a[3]

\* the asterisk cells of the claim
AsteriskNine ==
  {<<1, 4>>, <<2, 6>>, <<4, 7>>, <<6, 6>>, <<7, 4>>, <<6, 2>>, <<4, 1>>, <<2, 2>>, <<4, 4>>}

\* C17: the asterisk cells are these 9 cells; asterisk isValidMove equals
\* classic isValidMove outside them and on them also requires the value to
\* be in none of the other 8; on a filled board the constraint check is true
\* iff the 9 cells hold pairwise distinct values
C17_AsteriskRule ==
  tstVariant = "asterisk" =>
    /\ getAsteriskCells = AsteriskNine
    /\ Cardinality(getAsteriskCells) = 9
    /\ tstCall.op = "isValidMove" =>
         \A a \in Idx(9) \X Idx(9) \X CallValues(9) :
           a \in tstCall.result <=>
             /\ ClassicSudoku_isValidMove(tstBoard, a[1], a[2], a[3])
             /\ <<a[1], a[2]>> \in AsteriskNine =>
                  \A rc \in AsteriskNine \ {<<a[1], a[2]>>} : tstBoard[rc[1]][rc[2]] # a[3]
    /\ isBoardComplete(tstBoard) =>
         (validateAsteriskConstraint(tstBoard)
            <=> Cardinality({tstBoard[rc[1]][rc[2]] : rc \in AsteriskNine}) = 9)

\* an asterisk call that rejected, for the asterisk cells alone, a candidate
\* the classic rule accepts
C17_Witness ==
  /\ tstVariant = "asterisk"
  /\ tstCall.op = "isValidMove"
  /\ \E a \in (Idx(9) \X Idx(9) \X (1 .. 9)) \ tstCall.result :
       ClassicSudoku_isValidMove(tstBoard, a[1], a[2], a[3])

\* C18: even-odd isValidMove is false on every board when the parity of the
\* value disagrees with the pattern of the board's size (shaded and odd, or
\* unshaded and even); 4 at (0,0) of a 9 x 9 board is always rejected; when
\* the parity agrees the result is the classic row/column/box rule
C18_EvenOddParity ==
  (tstCall.op = "isValidMove" /\ tstVariant = "even-odd") =>
    LET n == BoardSize(tstBoard)
    IN /\ \A a \in Idx(n) \X Idx(n) \X CallValues(n) :
            IF getEvenOddPattern(n)[a[1] + 1][a[2] + 1] = (a[3] % 2 = 0)
            THEN a \in tstCall.result <=> FreeInRowColumnBox(tstBoard, a[1], a[2], a[3])
            ELSE a \notin tstCall.result
       /\ n = 9 => ~getEvenOddPattern(9)[1][1] /\ <<0, 0, 4>> \notin tstCall.result

\* a 9 x 9 even-odd call on a board where 4 is free in row 0, column 0 and
\* the first box, and yet was rejected at (0,0), while other candidates
\* were accepted
C18_Witness ==
  /\ tstCall.op = "isValidMove"
  /\ tstVariant = "even-odd"
  /\ BoardSize(tstBoard) = 9
  /\ FreeInRowColumnBox(tstBoard, 0, 0, 4)
  /\ <<0, 0, 4>> \notin tstCall.result
  /\ tstCall.result # {}

(***************************************************************************)
(* Properties of the complete-board generators                             *)
(***************************************************************************)
\* C19: the randomness of generateCompleteBoard is not confined to the first
\* row: every valid complete board is a possible output (each of the 288
\* valid 4 x 4 grids for classic), and two runs that start with the same
\* first row can end with different boards
C19_EveryValidBoardIsAnOutcome ==
  (tstCall.op = "generateCompleteBoard" /\ BoardSize(tstBoard) = 4) =>
    /\ Cardinality(tstCall.result) = 288
    /\ \E b1 \in tstCall.result, b2 \in tstCall.result : b1 # b2 /\ b1[0] = b2[0]

\* the pairs of orthogonally adjacent cells of an N x N board
AdjacentPairs(n) ==
  {pq \in Cells(n) \X Cells(n) :
     (pq[2][1] = pq[1][1] /\ pq[2][2] = pq[1][2] + 1)
       \/ (pq[2][2] = pq[1][2] /\ pq[2][1] = pq[1][1] + 1)}

\* C20: in the result of consecutive generatePuzzle every pair of adjacent
\* solution cells whose values differ by exactly 1 carries a mark, every
\* solution cell passes the two-sided rule and isBoardSolved(solution,
\* constraints) is true
C20_ConsecutivePairsMarked ==
  (HasResult /\ genVariant = "consecutive") =>
    /\ \A pq \in AdjacentPairs(genSize) :
         Abs(genResult.solution[pq[1][1]][pq[1][2]]
               - genResult.solution[pq[2][1]][pq[2][2]]) = 1
           => MarkBetween(genResult.aux, pq[1][1], pq[1][2], pq[2][1], pq[2][2])
    /\ ConsecutiveSudoku_isBoardSolved(genResult.solution, genResult.aux)

\* C21: the constraints of a consecutive generatePuzzle are a horizontal grid
\* of N rows and N - 1 columns and a vertical grid of N - 1 rows and N
\* columns, and a mark lies only on an edge whose two solution cells differ
\* by exactly 1
C21_MarksOnlyOnConsecutivePairs ==
  (HasResult /\ genVariant = "consecutive") =>
    /\ genResult.aux.horizontal \subseteq (0 .. genSize - 1) \X (0 .. genSize - 2)
    /\ genResult.aux.vertical \subseteq (0 .. genSize - 2) \X (0 .. genSize - 1)
    /\ \A rc \in genResult.aux.horizontal :
         Abs(genResult.solution[rc[1]][rc[2]] - genResult.solution[rc[1]][rc[2] + 1]) = 1
    /\ \A rc \in genResult.aux.vertical :
         Abs(genResult.solution[rc[1]][rc[2]] - genResult.solution[rc[1] + 1][rc[2]]) = 1

\* a consecutive puzzle with marks in both grids, next to unmarked edges
C21_Witness ==
  /\ HasResult
  /\ genVariant = "consecutive"
  /\ genResult.aux.horizontal # {}
  /\ genResult.aux.vertical # {}
  /\ \E rc \in (0 .. genSize - 1) \X (0 .. genSize - 2) : rc \notin genResult.aux.horizontal

(***************************************************************************)
(* The backtracking solvers as a state machine.  A solver is given a board *)
(* and either runs as a whole (the call returns) or invocation by          *)
(* invocation: tstAux is the solver's configuration, tstBoard the board at *)
(* the call, tstCall.result the solver's state and the steps taken.        *)
(***************************************************************************)
\* solveSudoku of a variant: first empty cell, candidates in ascending order
solverCfg(v) == [rule |-> v, aux |-> <<>>, cells |-> <<>>, seed |-> -1]

\* fillBoardOptimized of generateCompleteBoard(size, jigsawRegions): the
\* cells in cellOrder, candidates in the order of the random stream
jigsawCfg(regions, seed) ==
  [rule |-> "jigsaw", aux |-> regions, cells |-> jigsawCellOrder(regions), seed |-> seed]

\* the index from which the Fisher-Yates loop is followed down for a size:
\* every first row for 4 and 6, the 120 rows that permute the first five
\* numbers for 9
ShuffledFrom == [sz \in Sizes |-> IF sz = 9 THEN 4 ELSE sz - 1]

\* the first rows generateCompleteBoard(size) may place
FirstRows(sz) == shuffleOutcomesFrom(numbersArray(sz), ShuffledFrom[sz])

\* a solver is about to be called with `board`
SolverStarted(cfg, board) ==
  /\ tstVariant = "none"
  /\ tstVariant' = cfg.rule
  /\ tstAux' = cfg
  /\ tstBoard' = board
  /\ UNCHANGED <<tstCall, genVars>>

\* ClassicSudoku.generateCompleteBoard(size) has placed the first row
StartFirstRow ==
  \E sz \in Sizes : \E firstRow \in FirstRows(sz) :
    SolverStarted(solverCfg("classic"), [createEmptyBoard(sz) EXCEPT ![0] = firstRow])

\* a board of a 4 x 4 game, solvable or not, is handed to the variant's solver
SolverStartedOnGame(v, game) ==
  \E board \in boardsOf(game) : SolverStarted(solverCfg(v), board)

StartSolverOnGame ==
  \E v \in {"classic", "alphabet", "even-odd"}, s \in Seeds :
    SolverStartedOnGame(v, startGame(v, 4, s))

\* generateFallbackBoard(size) of even-odd has filled the diagonal boxes
StartEvenOddFallback ==
  \E sz \in {4, 9}, s \in Seeds :
    SolverStarted(solverCfg("even-odd"), fillDiagonalBoxes(createEmptyBoard(sz), s))

\* JigsawSudoku.generateCompleteBoard(size, jigsawRegions) has reset the board
StartJigsaw ==
  \E sz \in {6, 9}, s \in Seeds :
    \E i \in 1 .. Len(jigsawPatterns(sz)) :
      SolverStarted(jigsawCfg(jigsawPatterns(sz)[i], s), createEmptyBoard(sz))

\* the solver state and the number of invocation steps taken
Solving(st, steps) == [op |-> "solve", result |-> [st |-> st, steps |-> steps]]

\* the call ran to its return
SolverReturned(st) ==
  /\ tstVariant # "none"
  /\ tstCall = NoCall
  /\ solveDone(st)
  /\ tstCall' = Solving(st, 0)
  /\ UNCHANGED <<tstVariant, tstBoard, tstAux, genVars>>

\* solveSudoku(board) as a whole (a search the solver gives up on after
\* trying every placement is followed step by step only)
CallSolver ==
  /\ tstVariant \in {"classic", "alphabet", "even-odd"}
  /\ SolverReturned(solve(tstAux, tstBoard))

\* the steps of a search that are followed
MaxSolveSteps == 150

\* the solver is entered (the searches on the 4 x 4 boards and the jigsaw
\* searches are the ones followed step by step)
EnterSolver ==
  /\ tstVariant = "jigsaw" \/ BoardSize(tstBoard) = 4
  /\ tstCall = NoCall
  /\ tstCall' = Solving(solveInit(tstBoard), 1)
  /\ UNCHANGED <<tstVariant, tstBoard, tstAux, genVars>>

\* one invocation starts or returns
StepSolver ==
  /\ tstCall.op = "solve"
  /\ tstCall.result.steps > 0
  /\ tstCall.result.steps < MaxSolveSteps
  /\ ~solveDone(tstCall.result.st)
  /\ tstCall' = Solving(solveStep(tstAux, tstCall.result.st), tstCall.result.steps + 1)
  /\ UNCHANGED <<tstVariant, tstBoard, tstAux, genVars>>

\* the loop state of a generateCompleteBoard: the attempts counted, the
\* classic generations or fallback fills made, and whether it has returned
Generating(attempts, fills, returned) ==
  [op |-> "generating",
   result |-> [attempts |-> attempts, fills |-> fills, returned |-> returned]]

GeneratorRunning == tstCall.op = "generating" /\ ~tstCall.result.returned

\* the loop condition with the bound itself still allowing an attempt
retryMayContinueAtMax(attempts, bound) == attempts <= bound

\* while (attempts < maxAttempts) / for (attempt = 0; attempt < 50; attempt++)
retryMayContinue(attempts, bound) == attempts < bound

\* the constraint the retry loop of asterisk or windoku checks
retryConstraint(v, board) ==
  IF v = "asterisk" THEN validateAsteriskConstraint(board)
  ELSE validateWindokuConstraint(board)

\* asterisk / windoku generateCompleteBoard(): the board generated before the loop
EnterRetryClassic ==
  /\ tstVariant = "none"
  /\ \E v \in {"asterisk", "windoku"}, seed \in Seeds, stride \in {0, 1} :
       /\ tstVariant' = v
       /\ tstAux' = [seed |-> seed, stride |-> stride]
       /\ tstBoard' = ClassicCompleteBoards[9][attemptSeed(seed, stride, 0)]
  /\ tstCall' = Generating(0, 1, FALSE)
  /\ UNCHANGED genVars

\* one pass of the while loop: a board is generated and returned if it
\* passes the constraint, else attempts++
RetryClassic ==
  /\ tstVariant \in {"asterisk", "windoku"}
  /\ GeneratorRunning
  /\ retryMayContinue(tstCall.result.attempts, maxAttempts)
  /\ tstBoard' = classicAttempt(tstAux.seed, tstAux.stride, tstCall.result.attempts)
  /\ tstCall' = IF retryConstraint(tstVariant, tstBoard')
                THEN Generating(tstCall.result.attempts, tstCall.result.fills + 1, TRUE)
                ELSE Generating(tstCall.result.attempts + 1, tstCall.result.fills + 1, FALSE)
  /\ UNCHANGED <<tstVariant, tstAux, genVars>>

\* the loop is left: the last board is returned
ReturnLastBoard ==
  /\ tstVariant \in {"asterisk", "windoku"}
  /\ GeneratorRunning
  /\ ~retryMayContinue(tstCall.result.attempts, maxAttempts)
  /\ tstCall' = Generating(tstCall.result.attempts, tstCall.result.fills, TRUE)
  /\ UNCHANGED <<tstVariant, tstBoard, tstAux, genVars>>

\* JigsawSudoku.generateCompleteBoard(size, jigsawRegions) is entered
EnterJigsawGenerator ==
  /\ tstVariant = "none"
  /\ \E sz \in {6, 9}, seed \in Seeds, stride \in {0, 1} :
       \E i \in 1 .. Len(jigsawPatterns(sz)) :
         /\ tstAux' = [seed |-> seed, stride |-> stride, regions |-> jigsawPatterns(sz)[i]]
         /\ tstBoard' = createEmptyBoard(sz)
  /\ tstVariant' = "jigsaw"
  /\ tstCall' = Generating(0, 0, FALSE)
  /\ UNCHANGED genVars

\* one pass of the while loop: fillBoardOptimized(0) on the reset board returned
JigsawAttempted(filled) ==
  /\ tstVariant = "jigsaw"
  /\ GeneratorRunning
  /\ retryMayContinue(tstCall.result.attempts, jigsawMaxAttempts)
  /\ tstBoard' = filled.board
  /\ tstCall' = IF filled.ret = "true"
                THEN Generating(tstCall.result.attempts, tstCall.result.fills, TRUE)
                ELSE Generating(tstCall.result.attempts + 1, tstCall.result.fills, FALSE)
  /\ UNCHANGED <<tstVariant, tstAux, genVars>>

JigsawAttempt ==
  /\ tstVariant = "jigsaw"
  /\ GeneratorRunning
  /\ JigsawAttempted(fillBoardOptimized(BoardSize(tstBoard), tstAux.regions,
                                        attemptSeed(tstAux.seed, tstAux.stride,
                                                    tstCall.result.attempts)))

\* the loop is left: ClassicSudoku.generateCompleteBoard(size) is returned
JigsawFallback ==
  /\ tstVariant = "jigsaw"
  /\ GeneratorRunning
  /\ ~retryMayContinue(tstCall.result.attempts, jigsawMaxAttempts)
  /\ tstBoard' = ClassicCompleteBoards[BoardSize(tstBoard)]
                   [attemptSeed(tstAux.seed, tstAux.stride, jigsawMaxAttempts)]
  /\ tstCall' = Generating(tstCall.result.attempts, tstCall.result.fills + 1, TRUE)
  /\ UNCHANGED <<tstVariant, tstAux, genVars>>

\* EvenOddSudoku.generateCompleteBoard(size) is entered
EnterEvenOddGenerator ==
  /\ tstVariant = "none"
  /\ \E sz \in Sizes, seed \in Seeds, stride \in {0, 1} :
       /\ tstAux' = [seed |-> seed, stride |-> stride]
       /\ tstBoard' = createEmptyBoard(sz)
  /\ tstVariant' = "even-odd"
  /\ tstCall' = Generating(0, 0, FALSE)
  /\ UNCHANGED genVars

\* one pass of the for loop: fillBoardStrategically(board) on a new empty
\* board returned
EvenOddAttempted(filled) ==
  /\ tstVariant = "even-odd"
  /\ GeneratorRunning
  /\ retryMayContinue(tstCall.result.attempts, evenOddAttempts)
  /\ tstCall' = IF filled.ret = "true"
                THEN Generating(tstCall.result.attempts, tstCall.result.fills, TRUE)
                ELSE Generating(tstCall.result.attempts + 1, tstCall.result.fills, FALSE)
  /\ tstBoard' = IF filled.ret = "true" THEN filled.board ELSE tstBoard
  /\ UNCHANGED <<tstVariant, tstAux, genVars>>

EvenOddAttempt ==
  /\ tstVariant = "even-odd"
  /\ GeneratorRunning
  /\ EvenOddAttempted(fillBoardStrategically(BoardSize(tstBoard),
                                             attemptSeed(tstAux.seed, tstAux.stride,
                                                         tstCall.result.attempts)))

\* the loop is left: generateFallbackBoard(size) returned or threw
EvenOddFellBack(fallback) ==
  /\ tstVariant = "even-odd"
  /\ GeneratorRunning
  /\ ~retryMayContinue(tstCall.result.attempts, evenOddAttempts)
  /\ tstBoard' = IF fallback.threw THEN tstBoard ELSE fallback.board
  /\ tstCall' = Generating(tstCall.result.attempts, tstCall.result.fills + 1, TRUE)
  /\ UNCHANGED <<tstVariant, tstAux, genVars>>

EvenOddFallback ==
  /\ tstVariant = "even-odd"
  /\ GeneratorRunning
  /\ EvenOddFellBack(generateFallbackBoard(BoardSize(tstBoard),
                                           attemptSeed(tstAux.seed, tstAux.stride,
                                                       evenOddAttempts)))

NextSolver ==
  \/ StartFirstRow
  \/ StartSolverOnGame
  \/ StartEvenOddFallback
  \/ StartJigsaw
  \/ CallSolver
  \/ EnterSolver
  \/ StepSolver
  \/ EnterRetryClassic
  \/ RetryClassic
  \/ ReturnLastBoard
  \/ EnterJigsawGenerator
  \/ JigsawAttempt
  \/ JigsawFallback
  \/ EnterEvenOddGenerator
  \/ EvenOddAttempt
  \/ EvenOddFallback

SpecSolver == Init /\ [][NextSolver]_vars

\* the solving of tstBoard has produced a solver state
SolverState == tstCall.op = "solve"

\* the board is an empty board with a permutation of 1..N in its first row
IsFirstRowBoard(board) ==
  LET n == BoardSize(board)
  IN /\ {board[0][c] : c \in 0 .. n - 1} = 1 .. n
     /\ \A r \in 1 .. n - 1, c \in 0 .. n - 1 : board[r][c] = Null

\* C22: classic solveSudoku on a board with a permutation of 1..N in the first
\* row and nothing else returns true, leaves the first row as placed, and the
\* board is completely filled and passes classic validateBoard
C22_FirstRowIsCompleted ==
  (/\ SolverState
   /\ tstVariant = "classic"
   /\ IsFirstRowBoard(tstBoard)
   /\ solveDone(tstCall.result.st)) =>
    /\ tstCall.result.st.ret = "true"
    /\ tstCall.result.st.board[0] = tstBoard[0]
    /\ isBoardComplete(tstCall.result.st.board)
    /\ ClassicSudoku_validateBoard(tstCall.result.st.board)

\* a 9 x 9 first row other than 1..9 in order has been completed
C22_Witness ==
  /\ SolverState
  /\ tstVariant = "classic"
  /\ BoardSize(tstBoard) = 9
  /\ IsFirstRowBoard(tstBoard)
  /\ tstBoard[0][0] = 5
  /\ solveDone(tstCall.result.st)
  /\ isBoardComplete(tstCall.result.st.board)

\* the board an invocation was called with: the board of the outermost call
\* with the values the waiting invocations have placed
BoardAtCall(cfg, board, stack) ==
  LET n == BoardSize(board)
      frameOf(k) == {i \in 1 .. Len(stack) : stack[i].cell = k}
  IN [r \in 0 .. n - 1 |->
       [c \in 0 .. n - 1 |->
          IF frameOf(r * n + c) = {} THEN board[r][c]
          ELSE LET i == CHOOSE j \in frameOf(r * n + c) : TRUE
               IN candidates(cfg, n, i - 1)[stack[i].at]]]

\* C23: when an invocation of solveSudoku (classic, even-odd, alphabet) or of
\* the jigsaw fillBoardOptimized returns false, the board is cell for cell the
\* board the invocation was called with; when the outermost call returns true,
\* every cell that was filled at the call holds its original value
C23_BacktrackingFrame ==
  SolverState =>
    /\ tstCall.result.st.ret = "false" =>
         tstCall.result.st.board
           = BoardAtCall(tstAux, tstBoard, tstCall.result.st.stack)
    /\ (solveDone(tstCall.result.st) /\ tstCall.result.st.ret = "true") =>
         \A rc \in Cells(BoardSize(tstBoard)) :
           tstBoard[rc[1]][rc[2]] # Null =>
             tstCall.result.st.board[rc[1]][rc[2]] = tstBoard[rc[1]][rc[2]]

\* an invocation of fillBoardOptimized below other invocations has returned
\* false after it had placed and reset values
C23_Witness ==
  /\ SolverState
  /\ tstVariant = "jigsaw"
  /\ tstCall.result.st.ret = "false"
  /\ Len(tstCall.result.st.stack) > 3
  /\ tstCall.result.steps > 20

\* the outermost solveSudoku has returned false on a board with empty cells
C23_TopLevelFalse ==
  /\ SolverState
  /\ tstVariant \in {"classic", "even-odd", "alphabet"}
  /\ solveDone(tstCall.result.st)
  /\ tstCall.result.st.ret = "false"
  /\ ~isBoardComplete(tstBoard)

\* C24: an asterisk, windoku or jigsaw generatePuzzle(N, d) whose solution is
\* complete clears exactly floor(N*N*f(d)) cells, f = 0.4, 0.5, 0.6 (48 of 81
\* for hard): the guards never leave the carver short of its target
C24_GuardedCarverCount ==
  (HasResult /\ genVariant \in {"asterisk", "windoku", "jigsaw"}
             /\ isBoardComplete(genResult.solution)) =>
    /\ EmptyCount(genResult.puzzle)
         = (genSize * genSize * (IF genDifficulty = "easy" THEN 4
                                 ELSE IF genDifficulty = "hard" THEN 6
                                 ELSE 5)) \div 10
    /\ (genSize = 9 /\ genDifficulty = "hard") => EmptyCount(genResult.puzzle) = 48
    /\ ClueCount(genResult.puzzle, Cells(genSize))
         = genSize * genSize - EmptyCount(genResult.puzzle)

\* a hard 9 x 9 jigsaw puzzle with 48 cells cleared in which the guard has
\* held a region at its 3 clues
C24_Witness ==
  /\ HasResult /\ genVariant = "jigsaw" /\ genSize = 9 /\ genDifficulty = "hard"
  /\ isBoardComplete(genResult.solution)
  /\ EmptyCount(genResult.puzzle) = 48
  /\ \E g \in Idx(9) : ClueCount(genResult.puzzle, regionCellSet(genResult.aux, g)) = 3

\* the shaded cells of getEvenOddPattern(n) among a set of cells
ShadedCount(n, cellSet) ==
  Cardinality({rc \in cellSet : isShadedCell(rc[1], rc[2], n)})

\* C25: the even-odd shading pattern of the size a puzzle is generated for is
\* balanced: every row, every column and every box holds exactly floor(N/2)
\* shaded cells, as many as there are even values in 1..N
C25_EvenOddPatternBalanced ==
  (phase = "generated" /\ genVariant = "even-odd") =>
    /\ \A r \in Idx(genSize) :
         ShadedCount(genSize, {rc \in Cells(genSize) : rc[1] = r}) = genSize \div 2
    /\ \A c \in Idx(genSize) :
         ShadedCount(genSize, {rc \in Cells(genSize) : rc[2] = c}) = genSize \div 2
    /\ \A box \in Boxes(genSize) : ShadedCount(genSize, box) = genSize \div 2

\* the place of a solver state in the depth-first order of the search: the
\* candidate index (from 1) of every waiting invocation, then 0 for an
\* invocation that starts and N + 1 for one that has returned
SearchKey(st) ==
  [i \in 1 .. Len(st.stack) + 1 |->
     IF i <= Len(st.stack) THEN st.stack[i].at + 1
     ELSE IF st.ret = "call" THEN 0
     ELSE BoardSize(st.board) + 1]

\* lexicographic order of two keys
KeyBefore(a, b) ==
  \E i \in 1 .. Min(Len(a), Len(b)) :
    /\ a[i] < b[i]
    /\ \A j \in 1 .. i - 1 : a[j] = b[j]

\* the bounds of the retry loops
C26_RetryBounds ==
  tstCall.op = "generating" =>
    /\ tstVariant \in {"asterisk", "windoku"} =>
         /\ tstCall.result.attempts <= 100
         /\ tstCall.result.fills <= 101
    /\ tstVariant = "jigsaw" =>
         /\ tstCall.result.attempts <= 10
         /\ tstCall.result.fills <= 1
         /\ tstCall.result.fills = 1 => tstCall.result.attempts = 10
    /\ tstVariant = "even-odd" =>
         /\ tstCall.result.attempts <= 50
         /\ tstCall.result.fills <= 1
         /\ tstCall.result.fills = 1 => tstCall.result.attempts = 50

\* a pass of a retry loop returns or counts an attempt, and a step of a
\* backtracking search moves forward in the depth-first order of a finite
\* search tree
C26_Progress ==
  /\ (tstCall.op = "generating" /\ tstCall'.op = "generating") =>
       \/ tstCall'.result.returned
       \/ tstCall'.result.attempts = tstCall.result.attempts + 1
  /\ (tstCall.op = "solve" /\ tstCall'.op = "solve" /\ tstCall.result.steps > 0) =>
       /\ KeyBefore(SearchKey(tstCall.result.st), SearchKey(tstCall'.result.st))
       /\ Len(tstCall'.result.st.stack) <= BoardSize(tstBoard) * BoardSize(tstBoard)

\* C26: every complete-board generation is bounded: asterisk and windoku make
\* at most 101 classic generations, jigsaw at most 10 backtracking attempts
\* and then one classic generation, even-odd at most 50 attempts and then the
\* fallback fill; every pass of a loop returns or counts an attempt, and every
\* step of a backtracking attempt advances through its finite search tree
C26_GenerationBounded == [](C26_RetryBounds) /\ [][C26_Progress]_vars

\* an asterisk or windoku generation has returned its last board after 100
\* failed attempts and 101 classic generations
C26_Witness ==
  /\ tstCall.op = "generating"
  /\ tstVariant \in {"asterisk", "windoku"}
  /\ tstCall.result.returned
  /\ tstCall.result.attempts = 100
  /\ tstCall.result.fills = 101

\* a jigsaw generation has fallen back after 10 attempts
C26_JigsawFellBack ==
  /\ tstCall.op = "generating" /\ tstVariant = "jigsaw"
  /\ tstCall.result.returned /\ tstCall.result.fills = 1

\* C27: validateBoard (classic, even-odd, consecutive, jigsaw, alphabet,
\* thai-alphabet) leaves every cell of the board as it was at the call,
\* whether it returns true or returns false at the first invalid cell
C27_ValidateBoardRestoresBoard ==
  tstCall.op = "validateBoard in place" =>
    /\ tstCall.result.board = tstBoard
    /\ tstCall.result.valid = VariantValidates(tstVariant, tstBoard, tstAux)

\* validateBoard has returned false at a cell that is followed by filled cells
C27_Witness ==
  /\ tstCall.op = "validateBoard in place"
  /\ tstVariant = "jigsaw"
  /\ ~tstCall.result.valid
  /\ tstCall.result.board = tstBoard
  /\ ~ClassicSudoku_isValidMove(cleared(tstBoard, 0, 0), 0, 0, tstBoard[0][0])
  /\ tstBoard[0][0] # Null
  /\ tstBoard[BoardSize(tstBoard) - 1][BoardSize(tstBoard) - 1] # Null

(***************************************************************************)
(* The game component (SudokuGame) with the boards as the program holds    *)
(* them: a board is an array of references to row objects, heap maps the   *)
(* reference <<owner, r>> to the cells of that row.  Row objects that no   *)
(* board refers to any more are dropped.  In this machine tstBoard is the  *)
(* board the complete-board generator produced, tstAux the puzzle as       *)
(* generatePuzzle returned it, and tstCall.result the component's state.   *)
(***************************************************************************)
\* the references to the rows of a board whose rows belong to `owner`
rowRefs(owner, size) == [r \in Idx(size) |-> <<owner, r>>]

\* the cells of a board read through its references
readBoard(heap, refs) == [r \in DOMAIN refs |-> heap[refs[r]]]

\* [...board]: a new outer array that refers to the same row objects
spreadRows(heap, refs, owner) == [heap |-> heap, refs |-> refs]

\* board.map(row => [...row]): every row is copied into a new row object
mapCopyRows(heap, refs, owner) ==
  LET new == rowRefs(owner, Cardinality(DOMAIN refs))
  IN [heap |-> [ref \in (DOMAIN heap) \cup {new[r] : r \in DOMAIN new} |->
                  IF ref[1] = owner THEN heap[refs[ref[2]]] ELSE heap[ref]],
      refs |-> new]

\* board[row][col] = value
writeCell(heap, refs, row, col, value) == [heap EXCEPT ![refs[row]][col] = value]

\* the row objects some board still refers to
reachable(heap, boards) ==
  [ref \in {ref \in DOMAIN heap : \E b \in boards : \E r \in DOMAIN b : b[r] = ref} |->
     heap[ref]]

\* generatePuzzle on the heap: the generator's board is `solution`, `puzzle`
\* is solution.map(row => [...row]), and the removal loop (and the restoring
\* pass of even-odd) writes to puzzle[row][col]; the writes that remain in
\* effect are those of the cells in which the returned puzzle differs
generatePuzzleInHeap(solutionBoard, puzzleBoard) ==
  LET size == BoardSize(solutionBoard)
      solution == rowRefs("solution", size)
      copied == mapCopyRows([ref \in {solution[r] : r \in Idx(size)} |->
                               solutionBoard[ref[2]]],
                            solution, "puzzle")
      written(ref) ==
        LET r == CHOOSE q \in Idx(size) : copied.refs[q] = ref
        IN [c \in Idx(size) |->
              IF puzzleBoard[r][c] # solutionBoard[r][c] THEN puzzleBoard[r][c]
              ELSE copied.heap[ref][c]]
  IN [heap |-> [ref \in DOMAIN copied.heap |->
                  IF \E q \in Idx(size) : copied.refs[q] = ref THEN written(ref)
                  ELSE copied.heap[ref]],
      puzzle |-> copied.refs,
      solution |-> solution]

\* the state of the component
Game(heap, board, originalBoard, solution, focusedCell) ==
  [op |-> "game",
   result |-> [heap |-> reachable(heap, {board, originalBoard, solution}),
               board |-> board, originalBoard |-> originalBoard,
               solution |-> solution, focusedCell |-> focusedCell]]

GameMounted == tstCall.op = "game"

\* the board, the original board and the solution as the component reads them
GameBoard == readBoard(tstCall.result.heap, tstCall.result.board)

GameOriginalBoard == readBoard(tstCall.result.heap, tstCall.result.originalBoard)

GameSolution == readBoard(tstCall.result.heap, tstCall.result.solution)

\* the effect on [size]: generatePuzzle(size, 'medium'), setBoard(puzzle),
\* setOriginalBoard(puzzle.map(row => [...row])), setSolution(solution)
Mounted(v, game) ==
  /\ tstVariant = "none"
  /\ ~game.threw
  /\ tstVariant' = v
  /\ tstBoard' = game.solution
  /\ tstAux' = game.puzzle
  /\ LET made == generatePuzzleInHeap(game.solution, game.puzzle)
         original == mapCopyRows(made.heap, made.puzzle, "original")
     IN tstCall' = Game(original.heap, made.puzzle, original.refs, made.solution, <<>>)
  /\ UNCHANGED genVars

\* the sizes the game is mounted with
GameSizes == {4}

\* the game generatePuzzle returns to the component
gameOf(v, sz, s) ==
  IF v = "classic" THEN ClassicSudoku_generatePuzzle(sz, "medium", s, s)
  ELSE EvenOddSudoku_generatePuzzle(sz, "medium", s, s % 2, s)

MountGame ==
  \E v \in {"classic", "even-odd"}, sz \in GameSizes, s \in Seeds : Mounted(v, gameOf(v, sz, s))

\* the cells the events are aimed at
GameCells == {<<0, 0>>, <<1, 2>>, <<3, 1>>}

\* e.target.value of a change event
InputValues == {"", "0", "1", "2", "3", "4", "5", "9", "12", "-1", "x", "2x"}

\* a value of type number | null: null, NaN or an integer
NullValue == [kind |-> "null", n |-> 0]

NaN == [kind |-> "NaN", n |-> 0]

Number(n) == [kind |-> "number", n |-> n]

\* parseInt(value, 10): the leading integer of the text, NaN if there is none
parseInt10 ==
  [value \in InputValues |->
     IF value \in {"", "x"} THEN NaN
     ELSE IF value = "0" THEN Number(0)
     ELSE IF value = "1" THEN Number(1)
     ELSE IF value \in {"2", "2x"} THEN Number(2)
     ELSE IF value = "3" THEN Number(3)
     ELSE IF value = "4" THEN Number(4)
     ELSE IF value = "5" THEN Number(5)
     ELSE IF value = "9" THEN Number(9)
     ELSE IF value = "12" THEN Number(12)
     ELSE Number(-1)]

\* value === '' ? null : parseInt(value, 10)
numValueOf(value) == IF value = "" THEN NullValue ELSE parseInt10[value]

\* the cell content that stands for a value that is null or an integer
cellOf(numValue) == IF numValue.kind = "null" THEN Null ELSE numValue.n

\* the test of the number with the upper bound left out
isInvalidNumberBelowOnly(numValue, size) ==
  /\ numValue.kind # "null"
  /\ numValue.kind = "NaN" \/ numValue.n < 1

\* numValue !== null && (numValue < 1 || numValue > size || isNaN(numValue))
isInvalidNumber(numValue, size) ==
  /\ numValue.kind # "null"
  /\ numValue.kind = "NaN" \/ numValue.n < 1 \/ numValue.n > size

\* handleCellChange(row, col, value): the component's state after it
cellChanged(st, size, row, col, value) ==
  LET numValue == numValueOf(value)
      newBoard == mapCopyRows(st.heap, st.board, "board")
  IN IF readBoard(st.heap, st.originalBoard)[row][col] # Null THEN st
     ELSE IF isInvalidNumber(numValue, size) THEN st
     ELSE Game(writeCell(newBoard.heap, newBoard.refs, row, col, cellOf(numValue)),
               newBoard.refs, st.originalBoard, st.solution, st.focusedCell).result

\* the component's state is replaced
Rendered(st) ==
  /\ GameMounted
  /\ tstCall' = [tstCall EXCEPT !.result = st]
  /\ UNCHANGED <<tstVariant, tstBoard, tstAux, genVars>>

\* onChange of the input of a cell
HandleCellChange ==
  /\ GameMounted
  /\ \E rc \in GameCells, value \in InputValues :
       Rendered(cellChanged(tstCall.result, BoardSize(tstBoard), rc[1], rc[2], value))

\* handleCellClick(row, col): the cell is focused
HandleCellClick ==
  /\ GameMounted
  /\ \E rc \in GameCells : Rendered([tstCall.result EXCEPT !.focusedCell = rc])

\* e.key of a key event
Keys ==
  {"ArrowUp", "ArrowDown", "ArrowLeft", "ArrowRight", "Delete", "Backspace", "Enter",
   "0", "1", "2", "4", "5", "9", "x"}

\* handleKeyDown(e, row, col)
keyDown(st, size, row, col, key) ==
  IF key \notin {"ArrowUp", "ArrowDown", "ArrowLeft", "ArrowRight"}
  THEN IF readBoard(st.heap, st.originalBoard)[row][col] = Null
            /\ key \in {"1", "2", "4", "5", "9"}
       THEN (IF parseInt10[key].n >= 1 /\ parseInt10[key].n <= size
             THEN cellChanged(st, size, row, col, key)
             ELSE st)
       ELSE IF key \in {"Delete", "Backspace"}
       THEN (IF readBoard(st.heap, st.originalBoard)[row][col] = Null
             THEN cellChanged(st, size, row, col, "")
             ELSE st)
       ELSE st
  ELSE LET newRow == IF key = "ArrowUp" THEN (IF row > 0 THEN row - 1 ELSE size - 1)
                     ELSE IF key = "ArrowDown" THEN (IF row < size - 1 THEN row + 1 ELSE 0)
                     ELSE row
           newCol == IF key = "ArrowLeft" THEN (IF col > 0 THEN col - 1 ELSE size - 1)
                     ELSE IF key = "ArrowRight" THEN (IF col < size - 1 THEN col + 1 ELSE 0)
                     ELSE col
       IN [st EXCEPT !.focusedCell = <<newRow, newCol>>]

\* onKeyDown of a cell
HandleKeyDown ==
  /\ GameMounted
  /\ \E rc \in GameCells, key \in Keys :
       Rendered(keyDown(tstCall.result, BoardSize(tstBoard), rc[1], rc[2], key))

\* onBack: the component is unmounted
Unmount ==
  /\ GameMounted
  /\ tstVariant' = "none"
  /\ tstBoard' = <<>>
  /\ tstAux' = <<>>
  /\ tstCall' = NoCall
  /\ UNCHANGED genVars

NextGame ==
  \/ MountGame
  \/ HandleCellChange
  \/ HandleCellClick
  \/ HandleKeyDown
  \/ Unmount

SpecGame == Init /\ [][NextGame]_vars

\* C28: the solution the component holds after generatePuzzle is cell for
\* cell the board the complete-board generator produced, when the puzzle has
\* been carved and after every later write to the puzzle grid
C28_SolutionUntouched ==
  GameMounted =>
    /\ GameSolution = tstBoard
    /\ \A rc \in Cells(BoardSize(tstBoard)) :
         tstBoard[rc[1]][rc[2]] # Null => GameSolution[rc[1]][rc[2]] # Null

\* cells of the carved puzzle have been cleared and the user has written to
\* the puzzle grid
C28_Witness ==
  /\ GameMounted
  /\ tstAux # tstBoard
  /\ GameBoard # tstAux
  /\ GameSolution = tstBoard
  /\ \E rc \in GameCells : GameBoard[rc[1]][rc[2]] \notin {Null, tstBoard[rc[1]][rc[2]]}

\* the texts of the integers 1..9
DigitText == <<"1", "2", "3", "4", "5", "6", "7", "8", "9">>

\* the inputs that are no integer of 1..size and do not clear the cell
OutsideInputs(size) ==
  (InputValues \cup Keys)
    \ ({DigitText[n] : n \in 1 .. size}
         \cup {"", "2x", "Delete", "Backspace", "ArrowUp", "ArrowDown", "ArrowLeft",
               "ArrowRight"})

\* C29: after a puzzle is generated and under any sequence of cell clicks, key
\* presses and cell-change events, every clue of the original puzzle keeps its
\* value and every other cell is empty or holds an integer of 1..size; an
\* input outside 1..size leaves the board unchanged
C29_CluesKeptValuesInRange ==
  GameMounted =>
    LET size == BoardSize(tstBoard)
    IN /\ GameOriginalBoard = tstAux
       /\ \A rc \in Cells(size) :
            IF tstAux[rc[1]][rc[2]] # Null
            THEN GameBoard[rc[1]][rc[2]] = tstAux[rc[1]][rc[2]]
            ELSE GameBoard[rc[1]][rc[2]] \in {Null} \cup (1 .. size)
       /\ \A rc \in GameCells, input \in OutsideInputs(size) :
            /\ input \in InputValues =>
                 LET st == cellChanged(tstCall.result, size, rc[1], rc[2], input)
                 IN readBoard(st.heap, st.board) = GameBoard
            /\ input \in Keys =>
                 LET st == keyDown(tstCall.result, size, rc[1], rc[2], input)
                 IN readBoard(st.heap, st.board) = GameBoard

\* the user has filled an empty cell next to a clue that was aimed at too
C29_Witness ==
  /\ GameMounted
  /\ \E rc \in GameCells : tstAux[rc[1]][rc[2]] # Null
  /\ \E rc \in GameCells :
       /\ tstAux[rc[1]][rc[2]] = Null
       /\ GameBoard[rc[1]][rc[2]] = 4
  /\ tstCall.result.focusedCell # <<>>

(***************************************************************************)
(* The page: Home keeps gameMode, boardSize and sudokuType; while the mode *)
(* is 'size-selection-play' BoardSizeSelection keeps selectedType and      *)
(* showSizeSelection; in 'play' and 'print' a component is mounted with    *)
(* the pair and asks the registry entry of the type for a puzzle of the    *)
(* size.  The game component that takes the sudokuType property is not     *)
(* among the sources; what is modelled of it is that request alone.        *)
(***************************************************************************)

\* getImplementedSudokuTypes(): the ids of the entries it returns
getImplementedSudokuTypes ==
  <<"classic", "diagonal", "alphabet", "even-odd", "thai-alphabet", "consecutive",
    "asterisk", "jigsaw", "windoku">>

ImplementedTypes == {getImplementedSudokuTypes[i] : i \in 1 .. Len(getImplementedSudokuTypes)}

\* sizeOptions of BoardSizeSelection
sizeOptions == <<4, 6, 9>>

\* the size buttons shown for the selected type:
\* sizeOptions.filter(({ size }) => availableSizes.includes(size))
shownSizes(selectedType) ==
  LET config == {t \in ImplementedTypes : t = selectedType}
      sizes == IF config = {} THEN {4, 6, 9} ELSE availableSizes(selectedType)
  IN {sizeOptions[i] : i \in {j \in 1 .. Len(sizeOptions) : sizeOptions[j] \in sizes}}

\* SUDOKU_TYPES[type].generator.generatePuzzle(size, 'medium'); the module
\* of the diagonal entry is not among the sources and its result is left
\* empty
Registry_generatePuzzle(type, size, s) ==
  IF type = "classic" THEN ClassicSudoku_generatePuzzle(size, "medium", s, s)
  ELSE IF type = "alphabet" THEN AlphabetSudoku_generatePuzzle(size, "medium", s, s)
  ELSE IF type = "thai-alphabet" THEN ThaiAlphabetSudoku_generatePuzzle(size, "medium", s, s)
  ELSE IF type = "even-odd" THEN EvenOddSudoku_generatePuzzle(size, "medium", s, s % 2, s)
  ELSE IF type = "consecutive" THEN ConsecutiveSudoku_generatePuzzle(size, "medium", s, s, s)
  ELSE IF type = "jigsaw" THEN JigsawSudoku_generatePuzzle(size, "medium", s, s, 1, s)
  ELSE IF type = "asterisk" THEN AsteriskSudoku_generatePuzzle(size, "medium", s, s % 2, s)
  ELSE IF type = "windoku" THEN WindokuSudoku_generatePuzzle(size, "medium", s, s % 2, s)
  ELSE Returned(<<>>, <<>>, <<>>)

\* the state of Home and of BoardSizeSelection
Page(gameMode, boardSize, sudokuType, selectedType, showSizeSelection) ==
  [op |-> "page",
   result |-> [gameMode |-> gameMode, boardSize |-> boardSize, sudokuType |-> sudokuType,
               selectedType |-> selectedType, showSizeSelection |-> showSizeSelection]]

PageShown == tstCall.op = "page"

Home == tstCall.result

\* the page is in a mode in which a board component is rendered
BoardShown == PageShown /\ Home.gameMode \in {"play", "print"}

\* the component rendered has been mounted (its puzzle requested)
BoardMounted == BoardShown /\ phase = "generated"

\* no event reaches a component that is not mounted yet, or whose mount
\* effect threw
Interactive == PageShown /\ (BoardShown => (BoardMounted /\ ~genResult.threw))

\* the page is loaded: useState('menu'), useState(9), useState('classic')
LoadPage ==
  /\ tstVariant = "none"
  /\ phase = "idle"
  /\ tstVariant' = "page"
  /\ tstCall' = Page("menu", 9, "classic", "classic", FALSE)
  /\ UNCHANGED <<tstBoard, tstAux, genVars>>

\* Home goes to a mode in which no board component is rendered, or renders
\* another board component: the one rendered before is unmounted
Rendered_Home(page) ==
  /\ tstCall' = page
  /\ phase' = "idle"
  /\ genVariant' = "none"
  /\ genSize' = 0
  /\ genDifficulty' = "undefined"
  /\ genResult' = Threw
  /\ UNCHANGED <<tstVariant, tstBoard, tstAux>>

HandleStartGame ==
  /\ Interactive
  /\ Home.gameMode = "menu"
  /\ Rendered_Home(Page("size-selection-play", Home.boardSize, Home.sudokuType, "classic", FALSE))

\* a type button of BoardSizeSelection is clicked
SelectType ==
  /\ Interactive
  /\ Home.gameMode = "size-selection-play"
  /\ ~Home.showSizeSelection
  /\ \E type \in ImplementedTypes :
       tstCall' = Page(Home.gameMode, Home.boardSize, Home.sudokuType, type, TRUE)
  /\ UNCHANGED <<tstVariant, tstBoard, tstAux, genVars>>

\* 'Back to Types'
BackToTypes ==
  /\ Interactive
  /\ Home.gameMode = "size-selection-play"
  /\ Home.showSizeSelection
  /\ tstCall' = Page(Home.gameMode, Home.boardSize, Home.sudokuType, Home.selectedType, FALSE)
  /\ UNCHANGED <<tstVariant, tstBoard, tstAux, genVars>>

\* 'Back to Menu' on the type screen
HandleBackToMenu ==
  /\ Interactive
  /\ Home.gameMode = "size-selection-play"
  /\ ~Home.showSizeSelection
  /\ Rendered_Home(Page("menu", Home.boardSize, Home.sudokuType, "classic", FALSE))

\* a size button is clicked: onSizeSelect(size, selectedType)
HandleSizeSelection ==
  /\ Interactive
  /\ Home.gameMode = "size-selection-play"
  /\ Home.showSizeSelection
  /\ \E size \in shownSizes(Home.selectedType) :
       Rendered_Home(Page("play", size, Home.selectedType, "classic", FALSE))

HandleBack ==
  /\ Interactive
  /\ BoardShown
  /\ Rendered_Home(Page(IF Home.gameMode = "play" THEN "size-selection-play" ELSE "play",
                        Home.boardSize, Home.sudokuType, "classic", FALSE))

HandlePrintFromGame ==
  /\ Interactive
  /\ Home.gameMode = "play"
  /\ Rendered_Home(Page("print", Home.boardSize, Home.sudokuType, "classic", FALSE))

\* the mount effect of the component rendered: `game` is what the registry
\* entry of sudokuType returned for boardSize, or that it threw
BoardComponentMounted(type, size, game) ==
  /\ BoardShown
  /\ phase = "idle"
  /\ type = Home.sudokuType
  /\ size = Home.boardSize
  /\ phase' = "generated"
  /\ genVariant' = type
  /\ genSize' = size
  /\ genDifficulty' = "medium"
  /\ genResult' = game
  /\ UNCHANGED tstVars

MountBoardComponent ==
  \E type \in ImplementedTypes, size \in Sizes, s \in Seeds :
    BoardComponentMounted(type, size, Registry_generatePuzzle(type, size, s))

NextPage ==
  \/ LoadPage
  \/ HandleStartGame
  \/ SelectType
  \/ BackToTypes
  \/ HandleBackToMenu
  \/ HandleSizeSelection
  \/ HandleBack
  \/ HandlePrintFromGame
  \/ MountBoardComponent

SpecPage == Init /\ [][NextPage]_vars

\* in 'play' and 'print' the pair on display is a size button of an
\* implemented type
PairOffered ==
  BoardShown =>
    /\ Home.sudokuType \in ImplementedTypes
    /\ Home.boardSize \in availableSizes(Home.sudokuType)

\* C30: under any sequence of Start, type selection, size selection, Back and
\* Print events, whenever the mode is 'play' or 'print' the size is one of the
\* available sizes of the type and the type is implemented, and generatePuzzle
\* raises no error for the pair on display
C30_NoRaisingPairReachable ==
  /\ PairOffered
  /\ BoardMounted => ~genResult.threw

\* a game was played, printed and returned to, for a type with a single size
C30_Witness ==
  /\ BoardMounted
  /\ Home.gameMode = "print"
  /\ Home.sudokuType = "windoku"
  /\ ~genResult.threw

====
